---- MODULE Spec2Model ----
(***************************************************************************)
(* TempusGeo-Server tiered data store (DataManager): the local JSON tree,  *)
(* the in-process CACHE, the write-time metadata and the startup           *)
(* reconciliation against the remote archive (GAS).                        *)
(*                                                                         *)
(* The repository carries two revisions of the DataManager class.  The     *)
(* variable impl selects which one a behaviour runs:                       *)
(*   "generic" - the revision whose backup/restore payload is a list of    *)
(*               {path, content} files (src/unnamed/part_001);             *)
(*   "legacy"  - the revision whose payload is {clients, companies}        *)
(*               (src/services/DataManager.js).                            *)
(* Both share every operation except getBackupData / smartRestoreFromGAS.  *)
(*                                                                         *)
(* Execution model: Node.js, one thread.  Code between two awaited I/O     *)
(* calls runs atomically.  Every action below is "the pending I/O call of  *)
(* one async function completes (or fails), and the function runs on up    *)
(* to its next I/O call".  The name of a pc value is the pending call.     *)
(***************************************************************************)
EXTENDS Integers, Sequences, FiniteSets, TLC

\* ------------------------------------------------------------------ bounds
MaxClock  == 4      \* Date.now() ranges over 3..MaxClock
MaxFaults == 1      \* injected failures of fs calls in one behaviour
MaxEntries == 3     \* stored shift entries after which the client stops

\* ------------------------------------------------------------- value domain
Tenants   == {"t1", "t2"}
Employees == {"e1"}
Handlers  == {"h1"}   \* HTTP requests served; each calls one store operation
Null      == -1     \* JavaScript null in a shift entry's start / end

\* Abstract calendar behind new Date(ts).getFullYear() / getMonth() + 1:
\* model times 0..3 fall in December 2024, 4..7 in January 2025, ...
MonthIndex(ts) == 12 * 2024 + 11 + (ts \div 4)
YearOf(ts)    == MonthIndex(ts) \div 12
MonthOf(ts)   == (MonthIndex(ts) % 12) + 1
KeyOf(ts)     == <<YearOf(ts), MonthOf(ts)>>
ShardKeys     == {KeyOf(ts) : ts \in 0..(MaxClock + 1)}

\* ------------------------------------------------------------------- paths
DataDir          == <<"dataDir">>
CompanyDir(c)    == <<"companies", c>>
YearDir(c, y)    == <<"companies", c, "year", y>>
ClientsFile      == <<"clients.json">>
MetadataFile     == <<"metadata.json">>
SystemConfigFile == <<"system_config.json">>
ConfigFile(c)    == <<"companies", c, "config.json">>
ShardFile(c, k)  == <<"companies", c, k[1], k[2], "json">>

IsConfigPath(p) == Len(p) = 3
IsShardPath(p)  == Len(p) = 5
TenantOf(p)     == p[2]
ShardKeyOf(p)   == <<p[3], p[4]>>

\* path.dirname(fullPath) with { recursive: true }: the directories mkdir makes
DirsOf(p) ==
    IF IsShardPath(p) THEN {DataDir, CompanyDir(p[2]), YearDir(p[2], p[3])}
    ELSE IF IsConfigPath(p) THEN {DataDir, CompanyDir(p[2])}
    ELSE {DataDir}

\* ------------------------------------------------------------ file content
\* A file holds text: either the serialisation of a JSON value or text that
\* JSON.parse rejects.
Corrupt   == [ok |-> FALSE]
Text(v)   == [ok |-> TRUE, v |-> v]

\* Shift entries.  loc is "undef" for an own property whose value is
\* undefined ({start, end, location} with no location argument), "none" when
\* the key is absent; JSON.stringify drops undefined-valued keys.
Entry(s, e, l) == [start |-> s, end |-> e, loc |-> l]
\* Variant of StringifyEntry: an open entry's `end: null` is written as 0.
StringifyEntry_NullAsZero(x) ==
    [x EXCEPT !.loc = IF x.loc = "undef" THEN "none" ELSE x.loc,
              !.end = IF x.end = Null THEN 0 ELSE x.end]
StringifyEntry(x) == [x EXCEPT !.loc = IF x.loc = "undef" THEN "none" ELSE x.loc]
StringifyShard(sh) ==
    [e \in DOMAIN sh |-> [i \in 1..Len(sh[e]) |-> StringifyEntry(sh[e][i])]]
EmptyShard == [e \in {} |-> <<>>]

\* Tenant / system configuration objects: key -> value, "undefined" = no key.
CfgKeys == {"companyId", "settings", "adminEmail"}
Undefined == "undefined"
Cfg(id, settings, email) ==
    [k \in CfgKeys |-> CASE k = "companyId" -> id
                         [] k = "settings"  -> settings
                         [] OTHER           -> email]
EmptyObject == Cfg(Undefined, Undefined, Undefined)
\* { ...current, ...newConfig }
Merge(current, newConfig) ==
    [k \in CfgKeys |-> IF newConfig[k] # Undefined THEN newConfig[k] ELSE current[k]]
\* configData = { companyId, settings: {} }
DefaultConfig(c) == Cfg(c, "{}", Undefined)

\* fs.readFile + JSON.parse inside try/catch: the parsed value, or failure
Readable(d, p) == p \in DOMAIN d /\ d[p].ok

\* Variant of Put: a write that creates a file but never replaces one
\* (flag 'wx' semantics).
Put_KeepExisting(d, p, txt) ==
    [q \in (DOMAIN d) \cup {p} |-> IF q = p /\ p \notin DOMAIN d THEN txt ELSE d[q]]

\* Variant of Put: the write leaves p as the only file of the tree.
Put_ReplacesTree(d, p, txt) == [q \in {p} |-> txt]

\* fs.writeFile(p, txt): creates or overwrites
Put(d, p, txt) == [q \in (DOMAIN d) \cup {p} |-> IF q = p THEN txt ELSE d[q]]

\* getLastWriteTime once the read has completed: JSON.parse(data).lastWriteTime || 0
LastWriteTimeOf(d) == IF Readable(d, MetadataFile) THEN d[MetadataFile].v ELSE 0

\* ------------------------------------------------------------ CACHE values
NotLoaded == [k |-> "none"]
Company(cfg, shifts) == [k |-> "company", config |-> cfg, shifts |-> shifts]
NoShifts == [key \in {} |-> EmptyShard]

\* CACHE.historicalData[companyId][`${year}-${month}`] = { data, timestamp },
\* keyed here by <<companyId, <<year, month>>>>.
Cold(data, timestamp) == [data |-> data, timestamp |-> timestamp]
NoHistory == [x \in {} |-> Cold(EmptyShard, 0)]
TTL == 1    \* the cold cache's 3600000 ms, in model clock units
SetShard(co, key, sh) ==
    [co EXCEPT !.shifts = [q \in (DOMAIN co.shifts) \cup {key} |->
                              IF q = key THEN sh ELSE co.shifts[q]]]

\* ------------------------------------------------- archive restore payloads
Item(p, v) == [path |-> p, content |-> v]
OpenShift(ts) == [e \in {"e1"} |-> <<Entry(ts, Null, "none")>>]
ClosedShift(a, b) == [e \in {"e1"} |-> <<Entry(a, b, "none")>>]

TreeFull ==
    << Item(ClientsFile, <<"t1", "t2">>),
       Item(ConfigFile("t1"), Cfg("t1", "remote", Undefined)),
       Item(ShardFile("t1", KeyOf(3)), ClosedShift(1, 2)) >>
TreeShardOnly == << Item(ShardFile("t2", KeyOf(3)), OpenShift(2)) >>
TreeWithMeta(t) ==
    << Item(MetadataFile, t), Item(ClientsFile, <<"t2">>) >>

RemoteTimes == 0..3

\* response.data.data of GET ?path=restore, as each revision's own
\* getBackupData shapes it.  tree = FALSE: the payload carries metadata only
\* (no files array / no clients and companies members).
Snapshot(tree, files, t) == [tree |-> tree, files |-> files, time |-> t]
Snapshots(i) ==
    {Snapshot(TRUE, TreeFull, t) : t \in RemoteTimes}
    \cup {Snapshot(TRUE, TreeShardOnly, 3), Snapshot(FALSE, <<>>, 0),
          Snapshot(FALSE, <<>>, 3)}
    \cup (IF i = "generic"
          THEN {Snapshot(TRUE, TreeWithMeta(t), t) : t \in {3}}
          ELSE {})
NoBackup == Snapshot(FALSE, <<>>, 0)

\* ---------------------------------------------------- local tree at startup
WipedDisk == [p \in {} |-> Corrupt]
\* The shard a previous run left: e1 is clocked in, e2 has a closed shift.
WarmShard ==
    [e \in {"e1", "e2"} |->
        IF e = "e1" THEN <<Entry(1, Null, "none")>> ELSE <<Entry(1, 2, "none")>>]
WarmDisk(meta) ==
    [p \in {ClientsFile, MetadataFile, ConfigFile("t1"), ShardFile("t1", KeyOf(3))} |->
        CASE p = ClientsFile      -> Text(<<"t1">>)
          [] p = MetadataFile     -> meta
          [] p = ConfigFile("t1") -> Text(Cfg("t1", "local", Undefined))
          [] OTHER                -> Text(WarmShard)]
InitDisks == {WipedDisk} \cup {WarmDisk(m) : m \in {Text(1), Text(2), Corrupt}}
DirsOfDisk(d) == UNION {DirsOf(p) : p \in DOMAIN d}

VARIABLES
    impl,      \* which revision of DataManager runs
    gasUrl,    \* config.GAS_COLD_STORAGE_URL is set
    now,       \* the wall clock at its latest reading
    faults,    \* fs failures injected so far
    disk,      \* files under dataDir: path -> text
    dirs,      \* directories that exist
    CACHE,     \* [clients, companies]
    boot,      \* the init() activation started by the constructor
    req        \* the store operation each HTTP request is running

vars == <<impl, gasUrl, now, faults, disk, dirs, CACHE, boot, req>>

\* ------------------------------------------------------- handler activations
\* cleanupOldMonths' position in its three nested for-of loops: the companies,
\* the years of the first of them and the month files of the first of those
\* still to visit, as the readdir calls listed them.
Walk(cs, ys, ms) == [cs |-> cs, ys |-> ys, ms |-> ms]
NoWalk == Walk(<<>>, <<>>, <<>>)

\* What getEmployeeStatus returns: { state: "IN", startTime } or { state: "OUT" }
Status(state, startTime) == [state |-> state, startTime |-> startTime]
NoStatus == Status("none", Null)

Idle ==
    [pc |-> "idle", op |-> "none", c |-> "t1", key |-> KeyOf(0), emp |-> "e1",
     act |-> "IN", ts |-> 0, own |-> FALSE, obj |-> EmptyShard,
     cfg |-> EmptyObject, buf |-> Corrupt, t0 |-> 0, stamp |-> 0,
     phase |-> 0, res |-> "none", status |-> NoStatus, data |-> EmptyShard,
     calls |-> 0, walk |-> NoWalk, todo |-> <<>>, files |-> <<>>,
     newStart |-> Null, newEnd |-> Null]

\* A handler between saveShifts' cache assignment and its JSON.stringify holds a
\* reference to the shard object.  The object is the cached one (own = FALSE)
\* until some other activation stores a different object under the same cache
\* key; from then on nobody else can reach it, and the handler keeps its value.
HoldsRef(r) == r.pc = "ss_mkdir"
Detach(rq, cache, c, keys) ==
    [h \in DOMAIN rq |->
        IF HoldsRef(rq[h]) /\ ~rq[h].own /\ rq[h].c = c /\ rq[h].key \in keys
        THEN [rq[h] EXCEPT !.own = TRUE,
                           !.obj = cache.companies[c].shifts[rq[h].key]]
        ELSE rq[h]]
AllKeysOf(cache, c) ==
    IF cache.companies[c].k = "company" THEN DOMAIN cache.companies[c].shifts ELSE {}

\* const CACHE = { clients: [], companies: {}, ..., historicalData: {} }
NewCache ==
    [clients |-> <<>>, companies |-> [c \in Tenants |-> NotLoaded],
     historicalData |-> NoHistory]

\* ===================================================================== Init
\* The state right after `module.exports = new DataManager()`: the constructor
\* has called init(), which has run up to its first await (fs.mkdir(dataDir)).
BootStart ==
    [pc |-> "i_mkdir", localTime |-> 0, backup |-> NoBackup, remoteTime |-> 0,
     idx |-> 0, w |-> 0, decision |-> "none", runs |-> 0, result |-> "none",
     error |-> FALSE, restored |-> {}, failed |-> {}]

Init ==
    /\ impl \in {"generic", "legacy"}
    /\ gasUrl \in BOOLEAN
    /\ now = 3
    /\ faults = 0
    /\ disk \in InitDisks
    /\ dirs = DirsOfDisk(disk)
    /\ CACHE = NewCache
    /\ boot = BootStart
    /\ req = [h \in Handlers |-> Idle]

\* Date.now(): the wall clock never runs backwards; `now` is the value the
\* latest call returned.
DateNow == now..MaxClock

\* An fs call may fail (EACCES, ENOSPC, ...); the model injects at most
\* MaxFaults such failures.
CanFail == faults < MaxFaults

\* ============================================================ init(): boot
\* for (const client of CACHE.clients) await this.loadCompany(client.id):
\* loadCompany returns at once for a loaded company, so the loop runs on to the
\* first client from index `from` whose company is not loaded (0: none left).
NextToWarm(cache, from) ==
    LET cand == {i \in from..Len(cache.clients) :
                    cache.companies[cache.clients[i]].k = "none"}
    IN IF cand = {} THEN 0 ELSE CHOOSE i \in cand : \A j \in cand : i <= j

EnterWarmup(b, cache, from) ==
    LET i == NextToWarm(cache, from)
    IN IF i = 0 THEN [b EXCEPT !.pc = "done"]
       ELSE [b EXCEPT !.pc = "w_mkdir", !.w = i]

\* catch (e) of init(): "Critical Error initializing DataManager"
InitCatch(b) == [b EXCEPT !.pc = "done", !.error = TRUE]

\* await fs.mkdir(this.dataDir, { recursive: true })
BootMkdirData ==
    /\ boot.pc = "i_mkdir"
    /\ \/ /\ dirs' = dirs \cup {DataDir}
          /\ boot' = [boot EXCEPT !.pc = "i_readClients"]
          /\ UNCHANGED faults
       \/ /\ CanFail
          /\ faults' = faults + 1
          /\ boot' = InitCatch(boot)
          /\ UNCHANGED dirs
    /\ UNCHANGED <<impl, gasUrl, now, disk, CACHE, req>>

\* CACHE.clients = JSON.parse(await fs.readFile(clientsFile)), [] on any error;
\* then getLastWriteTime() issues its read.
BootReadClients ==
    /\ boot.pc = "i_readClients"
    /\ \/ /\ CACHE' = [CACHE EXCEPT !.clients =
                    IF Readable(disk, ClientsFile) THEN disk[ClientsFile].v ELSE <<>>]
          /\ UNCHANGED faults
       \/ /\ CanFail
          /\ faults' = faults + 1
          /\ CACHE' = [CACHE EXCEPT !.clients = <<>>]
    /\ boot' = [boot EXCEPT !.pc = "i_readMeta"]
    /\ UNCHANGED <<impl, gasUrl, now, disk, dirs, req>>

\* localTime = await getLastWriteTime(); smartRestoreFromGAS(localTime) starts:
\* without a configured URL it returns false at once, else it issues the GET.
BootReadMeta ==
    /\ boot.pc = "i_readMeta"
    /\ \E lt \in {LastWriteTimeOf(disk)} \cup (IF CanFail THEN {0} ELSE {}) :
          /\ faults' = IF lt = LastWriteTimeOf(disk) THEN faults ELSE faults + 1
          /\ LET b == [boot EXCEPT !.localTime = lt, !.runs = boot.runs + 1]
             IN boot' = IF gasUrl
                        THEN [b EXCEPT !.pc = "i_fetch"]
                        ELSE EnterWarmup([b EXCEPT !.decision = "nourl",
                                                   !.result = "false"], CACHE, 1)
    /\ UNCHANGED <<impl, gasUrl, now, disk, dirs, CACHE, req>>

\* ---------------------------------------------------- smartRestoreFromGAS
\* `return` from smartRestoreFromGAS: init() goes on to the warmup loop.
Return(b, cache, value) ==
    [boot |-> EnterWarmup([b EXCEPT !.result = value], cache, 1), cache |-> cache]

\* if (remoteTime > 0) await fs.writeFile(metadataFile, ...); return true
MetaOrReturn(b, cache) ==
    IF b.remoteTime > 0
    THEN [boot |-> [b EXCEPT !.pc = "r_meta"], cache |-> cache]
    ELSE Return(b, cache, "true")

\* The loop over the payload's files has ended.
\*   generic: `await this.loadAllToCache()` - the class defines no such method,
\*            the call throws a TypeError, the outer catch returns false;
\*   legacy : falls through to the metadata write.
EndOfFiles(b, cache) ==
    IF impl = "generic" THEN Return(b, cache, "false") ELSE MetaOrReturn(b, cache)

\* Start on the n-th file of the payload.  generic: mkdir(dirname), then write.
\* legacy: backup.clients is assigned to CACHE.clients and written with no
\* mkdir; a company's config / shard is written after a mkdir.
BeginItem(b, cache, n) ==
    LET files == b.backup.files
    IN IF n > Len(files) THEN EndOfFiles(b, cache)
       ELSE IF impl = "legacy" /\ files[n].path = ClientsFile
       THEN [boot  |-> [b EXCEPT !.idx = n, !.pc = "r_write"],
             cache |-> [cache EXCEPT !.clients = files[n].content]]
       ELSE [boot |-> [b EXCEPT !.idx = n, !.pc = "r_mkdir"], cache |-> cache]

\* A mkdir / writeFile of the restore loop failed.
\*   generic: the per-file catch logs "Failed to write file" and goes on;
\*   legacy : the exception reaches the outer catch, which returns false.
ItemFailed(b, cache) ==
    LET f == [b EXCEPT !.failed = b.failed \cup {b.backup.files[b.idx].path}]
    IN IF impl = "generic" THEN BeginItem(f, cache, b.idx + 1)
       ELSE Return(f, cache, "false")

\* Variant of Decide: Skip only when local is strictly newer.
Decide_StrictlyNewerLocal(b, cache) ==
    IF b.localTime > 0 /\ b.localTime > b.remoteTime
    THEN Return([b EXCEPT !.decision = "skip"], cache, "true")
    ELSE LET r == [b EXCEPT !.decision = "restore"]
         IN IF r.backup.tree THEN BeginItem(r, cache, 1)
            ELSE IF impl = "generic" THEN MetaOrReturn(r, cache)
            ELSE Return(r, cache, "false")

\* The Decide step, after a successful response.
Decide(b, cache) ==
    IF b.localTime > 0 /\ b.localTime >= b.remoteTime
    THEN Return([b EXCEPT !.decision = "skip"], cache, "true")
    ELSE LET r == [b EXCEPT !.decision = "restore"]
         IN IF r.backup.tree THEN BeginItem(r, cache, 1)
            ELSE IF impl = "generic" THEN MetaOrReturn(r, cache)
            \* legacy: Object.entries(backup.companies) throws on undefined
            ELSE Return(r, cache, "false")

\* The snapshot request did not deliver a payload.
\*   "threw"  : network error or timeout - axios throws, the outer catch
\*              logs "Critical Failure" and returns false;
\*   "failure": unparseable body (response.data is then a string without a
\*              success member) or success = false - "GAS returned failure".
\* Variant of FetchFailed: the failure is not caught inside
\* smartRestoreFromGAS and reaches init()'s catch.
FetchFailed_Escapes(b, cache, how) ==
    [boot |-> [b EXCEPT !.decision = how, !.pc = "done", !.error = TRUE],
     cache |-> cache]

FetchFailed(b, cache, how) == Return([b EXCEPT !.decision = how], cache, "false")

\* const response = await axios.get(`${gasUrl}?path=restore`, { timeout: 30000 })
BootFetch ==
    /\ boot.pc = "i_fetch"
    /\ \/ \E how \in {"threw", "failure"} :
            LET f == FetchFailed(boot, CACHE, how)
            IN boot' = f.boot /\ CACHE' = f.cache
       \/ \E s \in Snapshots(impl) :
            LET d == Decide([boot EXCEPT !.backup = s, !.remoteTime = s.time], CACHE)
            IN /\ boot' = d.boot
               /\ CACHE' = d.cache
    /\ UNCHANGED <<impl, gasUrl, now, faults, disk, dirs, req>>

\* await fs.mkdir(dirPath / companyDir / yearDir, { recursive: true })
RestoreMkdir ==
    /\ boot.pc = "r_mkdir"
    /\ LET item == boot.backup.files[boot.idx]
       IN \/ /\ dirs' = dirs \cup DirsOf(item.path)
             /\ boot' = [boot EXCEPT !.pc = "r_write"]
             /\ UNCHANGED <<faults, CACHE>>
          \/ /\ CanFail
             /\ faults' = faults + 1
             /\ LET f == ItemFailed(boot, CACHE)
                IN boot' = f.boot /\ CACHE' = f.cache
             /\ UNCHANGED dirs
    /\ UNCHANGED <<impl, gasUrl, now, disk, req>>

\* legacy only: the CACHE assignment that follows a successful write.
\* `CACHE.companies[companyId].shifts[key] = shifts` throws a TypeError when
\* the company has no CACHE entry (payload has shifts but no config for it).
LegacyCacheThrows(cache, item) ==
    IsShardPath(item.path) /\ cache.companies[TenantOf(item.path)].k = "none"
LegacyCacheAfterWrite(cache, item) ==
    LET c == TenantOf(item.path) IN
    IF IsConfigPath(item.path)
    THEN [cache EXCEPT !.companies[c] =
            IF @.k = "none" THEN Company(item.content, NoShifts)
            ELSE [@ EXCEPT !.config = item.content]]
    ELSE IF IsShardPath(item.path)
    THEN [cache EXCEPT !.companies[c] = SetShard(@, ShardKeyOf(item.path), item.content)]
    ELSE cache

\* The write of the current file succeeded.
Wrote(b) == [b EXCEPT !.restored = b.restored \cup {b.backup.files[b.idx].path}]

\* await fs.writeFile(fullPath, JSON.stringify(content, null, 2))
RestoreWrite ==
    /\ boot.pc = "r_write"
    /\ LET item == boot.backup.files[boot.idx]
       IN \/ /\ disk' = Put(disk, item.path, Text(item.content))
             /\ UNCHANGED faults
             /\ IF impl = "generic"
                THEN LET n == BeginItem(Wrote(boot), CACHE, boot.idx + 1)
                     IN boot' = n.boot /\ CACHE' = n.cache /\ UNCHANGED req
                ELSE IF LegacyCacheThrows(CACHE, item)
                THEN LET n == Return(Wrote(boot), CACHE, "false")
                     IN boot' = n.boot /\ CACHE' = n.cache /\ UNCHANGED req
                ELSE LET n == BeginItem(Wrote(boot), LegacyCacheAfterWrite(CACHE, item),
                                        boot.idx + 1)
                     IN /\ boot' = n.boot
                        /\ CACHE' = n.cache
                        /\ req' = IF IsShardPath(item.path)
                                  THEN Detach(req, CACHE, TenantOf(item.path),
                                              {ShardKeyOf(item.path)})
                                  ELSE req
          \/ /\ CanFail
             /\ faults' = faults + 1
             /\ LET f == ItemFailed(boot, CACHE)
                IN boot' = f.boot /\ CACHE' = f.cache
             /\ UNCHANGED <<disk, req>>
    /\ UNCHANGED <<impl, gasUrl, now, dirs>>

\* await fs.writeFile(this.metadataFile, JSON.stringify({ lastWriteTime: remoteTime }))
RestoreMeta ==
    /\ boot.pc = "r_meta"
    /\ \/ /\ disk' = Put(disk, MetadataFile, Text(boot.remoteTime))
          /\ boot' = Return(boot, CACHE, "true").boot
          /\ UNCHANGED faults
       \/ /\ CanFail
          /\ faults' = faults + 1
          /\ boot' = Return(boot, CACHE, "false").boot
          /\ UNCHANGED disk
    /\ UNCHANGED <<impl, gasUrl, now, dirs, CACHE, req>>

\* ------------------------------------------------- warmup: loadCompany(id)
\* await fs.mkdir(companyDir, { recursive: true }) - outside any try of
\* loadCompany, so a failure propagates to init()'s catch.
WarmMkdir ==
    /\ boot.pc = "w_mkdir"
    /\ \/ /\ dirs' = dirs \cup {DataDir, CompanyDir(CACHE.clients[boot.w])}
          /\ boot' = [boot EXCEPT !.pc = "w_read"]
          /\ UNCHANGED faults
       \/ /\ CanFail
          /\ faults' = faults + 1
          /\ boot' = InitCatch(boot)
          /\ UNCHANGED dirs
    /\ UNCHANGED <<impl, gasUrl, now, disk, CACHE, req>>

\* configData = parsed config.json or the default;
\* CACHE.companies[companyId] = { config: configData, shifts: {} }
\* Variant of LoadedCompany: the initial `let configData = {}` is kept when
\* config.json cannot be read.
LoadedCompany_EmptyDefault(cache, d, c, readFails) ==
    [cache EXCEPT !.companies[c] =
        Company(IF ~readFails /\ Readable(d, ConfigFile(c))
                THEN d[ConfigFile(c)].v ELSE EmptyObject, NoShifts)]
LoadedCompany(cache, d, c, readFails) ==
    [cache EXCEPT !.companies[c] =
        Company(IF ~readFails /\ Readable(d, ConfigFile(c))
                THEN d[ConfigFile(c)].v ELSE DefaultConfig(c), NoShifts)]

WarmRead ==
    /\ boot.pc = "w_read"
    /\ LET c == CACHE.clients[boot.w]
       IN \E readFails \in {FALSE} \cup (IF CanFail THEN {TRUE} ELSE {}) :
            /\ faults' = IF readFails THEN faults + 1 ELSE faults
            /\ CACHE' = LoadedCompany(CACHE, disk, c, readFails)
            /\ req' = Detach(req, CACHE, c, AllKeysOf(CACHE, c))
            /\ boot' = EnterWarmup(boot, CACHE', boot.w + 1)
    /\ UNCHANGED <<impl, gasUrl, now, disk, dirs>>

\* init() with GAS_COLD_STORAGE_URL unset: smartRestoreFromGAS returns at its
\* first check, so only the local steps occur.
LocalBootStep ==
    \/ BootMkdirData \/ BootReadClients \/ BootReadMeta \/ WarmMkdir \/ WarmRead

BootStep ==
    \/ LocalBootStep
    \/ BootFetch \/ RestoreMkdir \/ RestoreWrite \/ RestoreMeta

\* ================================================= store operations (handlers)
\* An fs.writeFile fails when its directory does not exist (ENOENT) and may
\* fail otherwise within the fault budget.
DirReady(p)    == DirsOf(p) \subseteq dirs
MayFail(p)     == ~DirReady(p) \/ CanFail
FaultsAfter(p) == IF DirReady(p) THEN faults + 1 ELSE faults

\* The operation returns / throws to the route handler, which still holds the
\* arguments of its call.
Finish(r, res) ==
    [Idle EXCEPT !.res = res, !.op = r.op, !.c = r.c, !.key = r.key,
                 !.emp = r.emp, !.act = r.act, !.ts = r.ts]
Resolve(r)     == Finish(r, "ok")
Reject(r)      == Finish(r, "rejected")

\* One handler's record changes; `detached` is req with other handlers'
\* references already detached where this step replaces a cached object.
SetReq(detached, h, r) == [detached EXCEPT ![h] = r]

\* JavaScript truthiness of a timestamp-or-null
Truthy(t) == t # Null /\ t # 0

\* logShift lines "if (!shifts[employeeName]) ..." to the end of the IN / OUT
\* branches, applied in place to the shard object.
LogShiftMutate(sh, e, action, ts) ==
    LET base == IF e \in DOMAIN sh THEN sh[e] ELSE <<>>
        n    == Len(base)
        upd  == IF action = "IN"
                THEN Append(base, Entry(ts, Null, "undef"))
                ELSE IF action = "OUT"
                THEN IF n > 0 /\ ~Truthy(base[n].end)
                     THEN [base EXCEPT ![n].end = ts]
                     ELSE Append(base, Entry(Null, ts, "none"))
                ELSE base
    IN [x \in (DOMAIN sh) \cup {e} |-> IF x = e THEN upd ELSE sh[x]]

\* getEmployeeStatus once getShifts has returned: the employee's last entry
\* of the shard decides.
StatusOf(sh, e) ==
    LET empShifts == IF e \in DOMAIN sh THEN sh[e] ELSE <<>>
        n         == Len(empShifts)
    IN IF n > 0 /\ ~Truthy(empShifts[n].end)
       THEN Status("IN", empShifts[n].start)
       ELSE Status("OUT", Null)

\* adminSaveShift once getShifts has returned.  findIndex compares s.start with
\* originalStart by === or by new Date(..).getTime(); new Date(null) is the
\* epoch.  The entry found gets the new start and end; with no entry found and
\* a falsy originalStart a new entry is pushed; otherwise nothing is saved.
DateMs(x) == IF x = Null THEN 0 ELSE x
SameInstant(a, b) == a = b \/ DateMs(a) = DateMs(b)
FoundAt(base, originalStart) ==
    {i \in 1..Len(base) : SameInstant(base[i].start, originalStart)}
AdminSaves(sh, e, originalStart) ==
    e \in DOMAIN sh /\ (FoundAt(sh[e], originalStart) # {} \/ ~Truthy(originalStart))
AdminSaveMutate(sh, e, originalStart, newStart, newEnd) ==
    LET base == sh[e]
        at   == FoundAt(base, originalStart)
        i    == CHOOSE j \in at : \A k \in at : j <= k
    IN [sh EXCEPT ![e] = IF at # {}
                         THEN [base EXCEPT ![i].start = newStart, ![i].end = newEnd]
                         ELSE Append(base, Entry(newStart, newEnd, "Admin Add"))]

\* performAutoCheckout: `if (!shift.end && shift.start)` and
\* `durationHours > 12`; the entry's end becomes the instant start + 12 h
\* (stored as an ISO string).
AutoLimit == 1    \* 12 hours, in model clock units
Overdue(x, t) == ~Truthy(x.end) /\ Truthy(x.start) /\ t - x.start > AutoLimit
AutoClose(sh, t) ==
    [e \in DOMAIN sh |->
        [i \in 1..Len(sh[e]) |->
            IF Overdue(sh[e][i], t)
            THEN [sh[e][i] EXCEPT !.end = sh[e][i].start + AutoLimit]
            ELSE sh[e][i]]]

\* The for-of loop of performAutoCheckout over CACHE.clients (walk.cs holds the
\* tenants still to visit, the current one first): getShifts for the month of
\* `now` (ts), which may need loadCompany or the shard read; with the shard in
\* hand the overdue entries are closed in place and, if any was, saveShifts is
\* called; otherwise the loop goes on to the next tenant.
RECURSIVE AutoFrom(_, _)
AutoBody(r, cache) ==
    LET co  == cache.companies[r.c]
        new == AutoClose(co.shifts[r.key], r.ts)
    IN IF new # co.shifts[r.key]
       THEN [r     |-> [r EXCEPT !.pc = "ss_mkdir", !.own = FALSE],
             cache |-> [cache EXCEPT !.companies[r.c] = SetShard(co, r.key, new)]]
       ELSE AutoFrom([r EXCEPT !.walk.cs = Tail(@)], cache)
AutoFrom(r, cache) ==
    IF r.walk.cs = <<>> THEN [r |-> Resolve(r), cache |-> cache]
    ELSE LET r1 == [r EXCEPT !.c = Head(r.walk.cs)]
         IN IF cache.companies[r1.c].k = "none"
            THEN [r |-> [r1 EXCEPT !.pc = "lc_mkdir"], cache |-> cache]
            ELSE IF r1.key \notin DOMAIN cache.companies[r1.c].shifts
            THEN [r |-> [r1 EXCEPT !.pc = "gs_read"], cache |-> cache]
            ELSE AutoBody(r1, cache)

\* getShifts has the shard object in hand (cache hit, or just stored after the
\* read).  logShift mutates it in place and calls saveShifts, whose cache
\* assignment stores the same object; saveShifts then waits for fs.mkdir.
\* getEmployeeStatus answers from it.
WithShifts(r, cache) ==
    LET co  == cache.companies[r.c]
        new == LogShiftMutate(co.shifts[r.key], r.emp, r.act, r.ts)
    IN IF r.op = "getEmployeeStatus"
       THEN [r     |-> [Resolve(r) EXCEPT !.status = StatusOf(co.shifts[r.key], r.emp)],
             cache |-> cache]
       ELSE IF r.op \in {"getShiftsHybrid", "getShifts"}
       THEN [r |-> [Resolve(r) EXCEPT !.data = co.shifts[r.key], !.obj = r.obj,
                                      !.phase = r.phase],
             cache |-> cache]
       ELSE IF r.op = "performAutoCheckout"
       THEN AutoBody(r, cache)
       ELSE IF r.op = "adminSaveShift"
       THEN IF AdminSaves(co.shifts[r.key], r.emp, r.ts)
            THEN [r     |-> [r EXCEPT !.pc = "ss_mkdir", !.own = FALSE],
                  cache |-> [cache EXCEPT !.companies[r.c] =
                               SetShard(co, r.key,
                                   AdminSaveMutate(co.shifts[r.key], r.emp, r.ts,
                                                   r.newStart, r.newEnd))]]
            ELSE [r |-> Resolve(r), cache |-> cache]
       ELSE [r     |-> [r EXCEPT !.pc = "ss_mkdir", !.own = FALSE],
             cache |-> [cache EXCEPT !.companies[r.c] = SetShard(co, r.key, new)]]

\* getShifts after the loadCompany check: cache hit, or issue the shard read.
\* Variant of GetShiftsBody: the file is read on every call.
GetShiftsBody_AlwaysReads(r, cache) ==
    [r |-> [r EXCEPT !.pc = "gs_read"], cache |-> cache]
GetShiftsBody(r, cache) ==
    IF r.key \in DOMAIN cache.companies[r.c].shifts
    THEN WithShifts(r, cache)
    ELSE [r |-> [r EXCEPT !.pc = "gs_read"], cache |-> cache]

\* updateCompanyConfig after the loadCompany check: merge, RAM update, then
\* wait for fs.mkdir(companyDir).
UpdateConfigBody(r, cache) ==
    LET updated == Merge(cache.companies[r.c].config, r.cfg)
    IN [r     |-> [r EXCEPT !.pc = "uc_mkdir", !.buf = Text(updated)],
        cache |-> [cache EXCEPT !.companies[r.c].config = updated]]

\* getCompanyConfig after the loadCompany check: a copy of the cached config
\* is returned.  (The copy also gets subscriptionExpired and expiryDate from
\* the tenant's client record; these two keys are not stored in config.json
\* by this function and are left out of CfgKeys.)
GetConfigBody(r, cache) ==
    [r |-> [Resolve(r) EXCEPT !.cfg = cache.companies[r.c].config], cache |-> cache]

\* if (!CACHE.companies[companyId]) await this.loadCompany(companyId);
\* then the body of the operation that asked for the company.
BodyOf(r, cache) ==
    IF r.op \in {"logShift", "getEmployeeStatus", "getShiftsHybrid", "getShifts",
                 "adminSaveShift", "performAutoCheckout"}
    THEN GetShiftsBody(r, cache)
    ELSE IF r.op = "getCompanyConfig"
    THEN GetConfigBody(r, cache)
    ELSE UpdateConfigBody(r, cache)
NeedCompany(r, cache) ==
    IF cache.companies[r.c].k = "none"
    THEN [r |-> [r EXCEPT !.pc = "lc_mkdir"], cache |-> cache]
    ELSE BodyOf(r, cache)

\* The request has not called the store yet.
Fresh(r) == r.pc = "idle" /\ r.res = "none"

\* POST /shift -> logShift(companyId, userName, action, timestamp || Date.now())
BeginLogShift(h) ==
    /\ Fresh(req[h])
    /\ \E c \in Tenants, e \in Employees, a \in {"IN", "OUT"}, t \in DateNow :
          LET r0 == [Idle EXCEPT !.op = "logShift", !.c = c, !.key = KeyOf(t),
                                 !.emp = e, !.act = a, !.ts = t, !.t0 = t]
              n  == NeedCompany(r0, CACHE)
          IN req' = SetReq(req, h, n.r) /\ CACHE' = n.cache /\ now' = t
    /\ UNCHANGED <<impl, gasUrl, faults, disk, dirs, boot>>

\* getEmployeeStatus(companyId, employeeName): with the company loaded it
\* takes `new Date()` at once and calls getShifts for the current month.
BeginGetEmployeeStatus(h) ==
    /\ Fresh(req[h])
    /\ \E c \in Tenants, e \in Employees :
       \E t \in (IF CACHE.companies[c].k = "none" THEN {now} ELSE DateNow) :
          LET r0 == [Idle EXCEPT !.op = "getEmployeeStatus", !.c = c, !.emp = e,
                                 !.key = KeyOf(t)]
              n  == NeedCompany(r0, CACHE)
          IN req' = SetReq(req, h, n.r) /\ CACHE' = n.cache /\ now' = t
    /\ UNCHANGED <<impl, gasUrl, faults, disk, dirs, boot>>

\* updateCompanyConfig(companyId, newConfig)
BeginUpdateCompanyConfig(h) ==
    /\ Fresh(req[h])
    /\ \E c \in Tenants, t \in DateNow :
          LET r0 == [Idle EXCEPT !.op = "updateCompanyConfig", !.c = c, !.t0 = t,
                                 !.cfg = Cfg(Undefined, "edited", Undefined)]
              n  == NeedCompany(r0, CACHE)
          IN req' = SetReq(req, h, n.r) /\ CACHE' = n.cache /\ now' = t
    /\ UNCHANGED <<impl, gasUrl, faults, disk, dirs, boot>>

\* saveClients(): JSON.stringify(CACHE.clients) is evaluated at the call.
BeginSaveClients(h) ==
    /\ Fresh(req[h])
    /\ \E t \in DateNow :
          /\ now' = t
          /\ req' = SetReq(req, h, [Idle EXCEPT !.op = "saveClients", !.t0 = t,
                                                !.pc = "sc_write",
                                                !.buf = Text(CACHE.clients)])
    /\ UNCHANGED <<impl, gasUrl, faults, disk, dirs, CACHE, boot>>

\* createBusiness(data): a fresh id, CACHE.clients.push(client), saveClients(),
\* then updateCompanyConfig(newId, config).
BeginCreateBusiness(h) ==
    /\ Fresh(req[h])
    /\ \E id \in Tenants, t \in DateNow :
          /\ now' = t
          /\ CACHE.companies[id].k = "none"
          /\ \A i \in 1..Len(CACHE.clients) : CACHE.clients[i] # id
          /\ CACHE' = [CACHE EXCEPT !.clients = Append(@, id)]
          /\ req' = SetReq(req, h,
                 [Idle EXCEPT !.op = "createBusiness", !.c = id, !.t0 = t,
                              !.phase = 1, !.cfg = Cfg(id, "{}", "mail"),
                              !.pc = "sc_write", !.buf = Text(CACHE'.clients)])
    /\ UNCHANGED <<impl, gasUrl, faults, disk, dirs, boot>>

\* updateSystemConfig(newConfig): getSystemConfig() issues its read.
BeginUpdateSystemConfig(h) ==
    /\ Fresh(req[h])
    /\ \E t \in DateNow :
          /\ now' = t
          /\ req' = SetReq(req, h, [Idle EXCEPT !.op = "updateSystemConfig", !.t0 = t,
                                                !.pc = "us_read",
                                                !.cfg = Cfg(Undefined, "plans", Undefined)])
    /\ UNCHANGED <<impl, gasUrl, faults, disk, dirs, CACHE, boot>>

\* loadCompany: await fs.mkdir(companyDir, { recursive: true })
LoadCompanyMkdir(h) ==
    /\ req[h].pc = "lc_mkdir"
    /\ \/ /\ dirs' = dirs \cup {DataDir, CompanyDir(req[h].c)}
          /\ req' = SetReq(req, h, [req[h] EXCEPT !.pc = "lc_read"])
          /\ UNCHANGED faults
       \/ /\ CanFail
          /\ faults' = faults + 1
          /\ req' = SetReq(req, h, Reject(req[h]))
          /\ UNCHANGED dirs
    /\ UNCHANGED <<impl, gasUrl, now, disk, CACHE, boot>>

\* loadCompany: the config read completes, CACHE.companies[companyId] is
\* (re)assigned with an empty shifts map, and the caller's body runs.
LoadCompanyRead(h) ==
    /\ req[h].pc = "lc_read"
    /\ \E readFails \in {FALSE} \cup (IF CanFail THEN {TRUE} ELSE {}),
          t \in (IF req[h].op = "getEmployeeStatus" THEN DateNow ELSE {now}) :
          LET c  == req[h].c
              \* getEmployeeStatus takes `new Date()` after its loadCompany
              r  == IF req[h].op = "getEmployeeStatus"
                    THEN [req[h] EXCEPT !.key = KeyOf(t)] ELSE req[h]
              n  == BodyOf(r, LoadedCompany(CACHE, disk, c, readFails))
          IN /\ faults' = IF readFails THEN faults + 1 ELSE faults
             /\ now' = t
             /\ CACHE' = n.cache
             /\ req' = SetReq(Detach(req, CACHE, c, AllKeysOf(CACHE, c)), h, n.r)
    /\ UNCHANGED <<impl, gasUrl, disk, dirs, boot>>

\* getShifts' try { JSON.parse(await fs.readFile(filePath)) } catch { {} }
\* Variant of ReadShard: a file that does not parse is salvaged as a record
\* of one closed shift instead of {}.
ReadShard_SalvagesCorrupt(d, file, readFails) ==
    IF ~readFails /\ Readable(d, file) THEN d[file].v
    ELSE IF file \in DOMAIN d THEN ClosedShift(1, 2) ELSE EmptyShard
ReadShard(d, file, readFails) ==
    IF ~readFails /\ Readable(d, file) THEN d[file].v ELSE EmptyShard

\* getShifts: the shard read completes ({} on any error), the parsed object is
\* stored in the cache, and logShift goes on with it.
GetShiftsRead(h) ==
    /\ req[h].pc = "gs_read"
    /\ \E readFails \in {FALSE} \cup (IF CanFail THEN {TRUE} ELSE {}) :
          LET c    == req[h].c
              key  == req[h].key
              file == ShardFile(c, key)
              sh   == ReadShard(disk, file, readFails)
              n    == WithShifts(req[h],
                         [CACHE EXCEPT !.companies[c] = SetShard(@, key, sh)])
          IN /\ faults' = IF readFails THEN faults + 1 ELSE faults
             /\ CACHE' = n.cache
             /\ req' = SetReq(Detach(req, CACHE, c, {key} \cap AllKeysOf(CACHE, c)),
                              h, n.r)
    /\ UNCHANGED <<impl, gasUrl, now, disk, dirs, boot>>

\* saveShifts: await fs.mkdir(yearDir); then JSON.stringify(shiftsData) is
\* evaluated for the writeFile call.
ShardOfRef(r) == IF r.own THEN r.obj ELSE CACHE.companies[r.c].shifts[r.key]
SaveShiftsMkdir(h) ==
    /\ req[h].pc = "ss_mkdir"
    /\ \/ /\ dirs' = dirs \cup DirsOf(ShardFile(req[h].c, req[h].key))
          /\ req' = SetReq(req, h,
                 [req[h] EXCEPT !.pc = "ss_write",
                                !.buf = Text(StringifyShard(ShardOfRef(req[h])))])
          /\ UNCHANGED faults
       \/ /\ CanFail
          /\ faults' = faults + 1
          /\ req' = SetReq(req, h, Reject(req[h]))
          /\ UNCHANGED dirs
    /\ UNCHANGED <<impl, gasUrl, now, disk, CACHE, boot>>

\* A data-file write (shard, config.json, clients.json, system_config.json)
\* completes; on success updateLastWriteTime() takes Date.now() and issues the
\* metadata write; a failure rejects the operation.
DataWrite(h, pcName, file) ==
    /\ req[h].pc = pcName
    /\ \/ /\ DirReady(file)
          /\ disk' = Put(disk, file, req[h].buf)
          /\ \E t \in DateNow :
                /\ now' = t
                /\ req' = SetReq(req, h, [req[h] EXCEPT !.pc = "ult_write",
                                                        !.stamp = t])
          /\ UNCHANGED faults
       \/ /\ MayFail(file)
          /\ faults' = FaultsAfter(file)
          /\ req' = SetReq(req, h, Reject(req[h]))
          /\ UNCHANGED <<disk, now>>
    /\ UNCHANGED <<impl, gasUrl, dirs, CACHE, boot>>

SaveShiftsWrite(h)     == DataWrite(h, "ss_write", ShardFile(req[h].c, req[h].key))
UpdateConfigWrite(h)   == DataWrite(h, "uc_write", ConfigFile(req[h].c))
SaveClientsWrite(h)    == DataWrite(h, "sc_write", ClientsFile)
SystemConfigWrite(h)   == DataWrite(h, "us_write", SystemConfigFile)

\* updateCompanyConfig: await fs.mkdir(companyDir, { recursive: true })
UpdateConfigMkdir(h) ==
    /\ req[h].pc = "uc_mkdir"
    /\ \/ /\ dirs' = dirs \cup {DataDir, CompanyDir(req[h].c)}
          /\ req' = SetReq(req, h, [req[h] EXCEPT !.pc = "uc_write"])
          /\ UNCHANGED faults
       \/ /\ CanFail
          /\ faults' = faults + 1
          /\ req' = SetReq(req, h, Reject(req[h]))
          /\ UNCHANGED dirs
    /\ UNCHANGED <<impl, gasUrl, now, disk, CACHE, boot>>

\* updateSystemConfig: getSystemConfig()'s read completes ({} on any error)
SystemConfigRead(h) ==
    /\ req[h].pc = "us_read"
    /\ \E readFails \in {FALSE} \cup (IF CanFail THEN {TRUE} ELSE {}) :
          LET current == IF ~readFails /\ Readable(disk, SystemConfigFile)
                         THEN disk[SystemConfigFile].v ELSE EmptyObject
          IN /\ faults' = IF readFails THEN faults + 1 ELSE faults
             /\ req' = SetReq(req, h,
                    [req[h] EXCEPT !.pc = "us_write",
                                   !.buf = Text(Merge(current, req[h].cfg))])
    /\ UNCHANGED <<impl, gasUrl, now, disk, dirs, CACHE, boot>>

\* What follows `await this.updateLastWriteTime()` in the running operation:
\* createBusiness goes on to updateCompanyConfig(newId, config); logShift reads
\* the (loaded) company config without I/O and returns; the others return.
AfterStamp(r, cache) ==
    IF r.op = "createBusiness" /\ r.phase = 1
    THEN NeedCompany([r EXCEPT !.phase = 2], cache)
    ELSE IF r.op = "performAutoCheckout"
    THEN AutoFrom([r EXCEPT !.pc = "idle", !.walk.cs = Tail(@)], cache)
    ELSE [r |-> Resolve(r), cache |-> cache]

\* updateLastWriteTime: the metadata write completes; a failure is caught and
\* logged ("[Metadata] Failed to write metadata"), never rethrown.
UpdateLastWriteTime(h) ==
    /\ req[h].pc = "ult_write"
    /\ \/ /\ DirReady(MetadataFile)
          /\ disk' = Put(disk, MetadataFile, Text(req[h].stamp))
          /\ UNCHANGED faults
       \/ /\ MayFail(MetadataFile)
          /\ faults' = FaultsAfter(MetadataFile)
          /\ UNCHANGED disk
    /\ LET n == AfterStamp(req[h], CACHE)
       IN req' = SetReq(req, h, n.r) /\ CACHE' = n.cache
    /\ UNCHANGED <<impl, gasUrl, now, dirs, boot>>

HandlerStep(h) ==
    \/ BeginLogShift(h) \/ BeginUpdateCompanyConfig(h) \/ BeginSaveClients(h)
    \/ BeginCreateBusiness(h) \/ BeginUpdateSystemConfig(h)
    \/ LoadCompanyMkdir(h) \/ LoadCompanyRead(h) \/ GetShiftsRead(h)
    \/ SaveShiftsMkdir(h) \/ SaveShiftsWrite(h)
    \/ UpdateConfigMkdir(h) \/ UpdateConfigWrite(h)
    \/ SaveClientsWrite(h) \/ SystemConfigRead(h) \/ SystemConfigWrite(h)
    \/ UpdateLastWriteTime(h)

Next == BootStep \/ (\E h \in Handlers : HandlerStep(h))

Spec == Init /\ [][Next]_vars

\* ------------------------------------------------- hot / cold read routing
\* isHotMonth(year, month) evaluated when `new Date()` reads ts.
IsHotMonth_SameYearOnly(year, month, ts) ==
    LET currentYear  == YearOf(ts)
        currentMonth == MonthOf(ts)
    IN \/ year = currentYear /\ month = currentMonth
       \/ year = currentYear /\ month = currentMonth - 1

IsHotMonth(year, month, ts) ==
    LET currentYear   == YearOf(ts)
        currentMonth  == MonthOf(ts)
        lastMonth     == IF currentMonth = 1 THEN 12 ELSE currentMonth - 1
        lastMonthYear == IF currentMonth = 1 THEN currentYear - 1 ELSE currentYear
    IN \/ year = currentYear /\ month = currentMonth
       \/ year = lastMonthYear /\ month = lastMonth

\* GET /history?year=&month= : the periods a client asks for, and what the
\* archive answers for a period.
HybridKeys == {<<2024, 10>>, <<2024, 12>>}
ColdData   == {ClosedShift(1, 2), ClosedShift(2, 3)}

\* fetchColdData from its cache check to its first await or return; t is what
\* Date.now() returns in the age computation.
FreshEntry_NeverExpires(cache, c, key, t) == <<c, key>> \in DOMAIN cache.historicalData

FreshEntry(cache, c, key, t) ==
    /\ <<c, key>> \in DOMAIN cache.historicalData
    /\ t - cache.historicalData[<<c, key>>].timestamp < TTL
FetchColdBody_LocalFallback(r, cache, t) ==
    IF FreshEntry(cache, r.c, r.key, t)
    THEN [Resolve(r) EXCEPT !.data = cache.historicalData[<<r.c, r.key>>].data]
    ELSE IF ~gasUrl
    THEN NeedCompany(r, cache).r
    ELSE [r EXCEPT !.pc = "cold_get", !.calls = 1]

FetchColdBody(r, cache, t) ==
    IF FreshEntry(cache, r.c, r.key, t)
    THEN [Resolve(r) EXCEPT !.data = cache.historicalData[<<r.c, r.key>>].data]
    ELSE IF ~gasUrl
    THEN [Resolve(r) EXCEPT !.data = EmptyShard]
    ELSE [r EXCEPT !.pc = "cold_get", !.calls = 1]

\* getShiftsHybrid(companyId, year, month): isHotMonth, then getShifts or
\* fetchColdData up to the first await.
BeginGetShiftsHybrid(h) ==
    /\ Fresh(req[h])
    /\ \E c \in Tenants, key \in HybridKeys, t \in DateNow :
          LET r0 == [Idle EXCEPT !.op = "getShiftsHybrid", !.c = c, !.key = key,
                                 !.ts = t]
          IN IF IsHotMonth(key[1], key[2], t)
             THEN LET n == NeedCompany(r0, CACHE)
                  IN req' = SetReq(req, h, n.r) /\ CACHE' = n.cache /\ now' = t
             ELSE \E t2 \in (IF <<c, key>> \in DOMAIN CACHE.historicalData
                              THEN t..MaxClock ELSE {t}) :
                     /\ req' = SetReq(req, h, FetchColdBody(r0, CACHE, t2))
                     /\ CACHE' = CACHE
                     /\ now' = t2
    /\ UNCHANGED <<impl, gasUrl, faults, disk, dirs, boot>>

\* Variant of PutCold: the cold cache keyed by "year-month" alone, with no
\* per-tenant level.
PutCold_MonthKeyOnly(cache, c, key, entry) ==
    [cache EXCEPT !.historicalData =
        [x \in (DOMAIN cache.historicalData) \cup {<<b, key>> : b \in Tenants} |->
            IF x[2] = key THEN entry ELSE cache.historicalData[x]]]
\* fetchColdData: await axios.get(`${gasUrl}/history/...`) settles.  A response
\* is cached with the time of its arrival; an error is answered with {}.
PutCold(cache, c, key, entry) ==
    [cache EXCEPT !.historicalData =
        [x \in (DOMAIN cache.historicalData) \cup {<<c, key>>} |->
            IF x = <<c, key>> THEN entry ELSE cache.historicalData[x]]]
\* catch (e) { ...; return {}; }
ColdFailed_CachesEmpty(r, cache) ==
    [r     |-> [Resolve(r) EXCEPT !.data = EmptyShard, !.calls = r.calls],
     cache |-> PutCold(cache, r.c, r.key, Cold(EmptyShard, r.ts))]

ColdFailed(r, cache) ==
    [r     |-> [Resolve(r) EXCEPT !.data = EmptyShard, !.calls = r.calls],
     cache |-> cache]
ColdGet(h) ==
    /\ req[h].pc = "cold_get"
    /\ \/ LET f == ColdFailed(req[h], CACHE)
          IN req' = SetReq(req, h, f.r) /\ CACHE' = f.cache /\ UNCHANGED now
       \/ \E data \in ColdData, t \in DateNow :
            /\ CACHE' = PutCold(CACHE, req[h].c, req[h].key, Cold(data, t))
            /\ now' = t
            /\ req' = SetReq(req, h, [Resolve(req[h]) EXCEPT !.data = data,
                                                            !.calls = req[h].calls])
    /\ UNCHANGED <<impl, gasUrl, faults, disk, dirs, boot>>

\* ------------------------------------------------------- retention sweep
\* fs.readdir lists names in sorted order.
RECURSIVE Listed(_)
Listed(S) ==
    IF S = {} THEN <<>>
    ELSE LET m == CHOOSE x \in S : \A y \in S : x <= y
         IN <<m>> \o Listed(S \ {m})
TenantOrder == <<"t1", "t2">>
IsCompanyDir(c) == CompanyDir(c) \in dirs
CompaniesListed == SelectSeq(TenantOrder, IsCompanyDir)
YearsListed(c) ==
    Listed({x[4] : x \in {q \in dirs : Len(q) = 4 /\ q[2] = c}})
MonthsListed(c, y) ==
    Listed({p[4] : p \in {q \in DOMAIN disk : IsShardPath(q) /\ q[2] = c /\ q[3] = y}})

\* fs.unlink(p)
Del(d, p) == [q \in (DOMAIN d) \ {p} |-> d[q]]
\* if (CACHE.companies[companyId]?.shifts[cacheKey]) delete ...shifts[cacheKey]
DropShard(cache, c, key) ==
    IF cache.companies[c].k = "company" /\ key \in DOMAIN cache.companies[c].shifts
    THEN [cache EXCEPT !.companies[c].shifts =
             [q \in (DOMAIN @) \ {key} |-> @[q]]]
    ELSE cache

\* The loops run on from the current month list to the next await: the unlink
\* of the first month that is not hot at t, else the readdir of the next year,
\* else the readdir of the next company, else the end of the sweep.
SkipHot_KeepsCurrentOnly(y, ms, t) ==
    LET cold == {i \in 1..Len(ms) : KeyOf(t) # <<y, ms[i]>>}
    IN IF cold = {} THEN <<>>
       ELSE SubSeq(ms, CHOOSE i \in cold : \A j \in cold : i <= j, Len(ms))

SkipHot(y, ms, t) ==
    LET cold == {i \in 1..Len(ms) : ~IsHotMonth(y, ms[i], t)}
    IN IF cold = {} THEN <<>>
       ELSE SubSeq(ms, CHOOSE i \in cold : \A j \in cold : i <= j, Len(ms))
NextCompany(r, cs) ==
    IF cs = <<>> THEN Resolve(r)
    ELSE [r EXCEPT !.pc = "cl_company", !.walk = Walk(cs, <<>>, <<>>)]
NextYear(r, cs, ys) ==
    IF ys = <<>> THEN NextCompany(r, Tail(cs))
    ELSE [r EXCEPT !.pc = "cl_year", !.walk = Walk(cs, ys, <<>>)]
NextMonth(r, cs, ys, ms, t) ==
    LET rest == SkipHot(Head(ys), ms, t)
    IN IF rest = <<>> THEN NextYear(r, cs, Tail(ys))
       ELSE [r EXCEPT !.pc = "cl_unlink", !.walk = Walk(cs, ys, rest), !.ts = t]

\* cleanupOldMonths(): const companies = await fs.readdir(companiesDir)
BeginCleanup(h) ==
    /\ Fresh(req[h])
    /\ req' = SetReq(req, h, [Idle EXCEPT !.op = "cleanupOldMonths",
                                          !.pc = "cl_companies"])
    /\ UNCHANGED <<impl, gasUrl, now, faults, disk, dirs, CACHE, boot>>

\* A rejected fs call lands in the catch of cleanupOldMonths, which logs it;
\* the sweep is over.
CleanupCaught(h) ==
    /\ CanFail
    /\ faults' = faults + 1
    /\ req' = SetReq(req, h, Resolve(req[h]))
    /\ UNCHANGED <<now, disk, CACHE>>

\* readdir(companiesDir) settles: ENOENT while no company directory exists.
CleanupCompanies(h) ==
    /\ req[h].pc = "cl_companies"
    /\ \/ /\ req' = SetReq(req, h, NextCompany(req[h], CompaniesListed))
          /\ UNCHANGED <<now, faults, disk, CACHE>>
       \/ CleanupCaught(h)
    /\ UNCHANGED <<impl, gasUrl, dirs, boot>>

\* const years = await fs.readdir(companyDir); 'config.json' is skipped.
CleanupCompany(h) ==
    /\ req[h].pc = "cl_company"
    /\ \/ LET w == req[h].walk
          IN /\ req' = SetReq(req, h, NextYear(req[h], w.cs, YearsListed(Head(w.cs))))
             /\ UNCHANGED <<now, faults, disk, CACHE>>
       \/ CleanupCaught(h)
    /\ UNCHANGED <<impl, gasUrl, dirs, boot>>

\* const months = await fs.readdir(yearDir); then isHotMonth for each file.
CleanupYear(h) ==
    /\ req[h].pc = "cl_year"
    /\ \/ \E t \in DateNow :
            LET w == req[h].walk
            IN /\ req' = SetReq(req, h,
                            NextMonth(req[h], w.cs, w.ys,
                                      MonthsListed(Head(w.cs), Head(w.ys)), t))
               /\ now' = t
               /\ UNCHANGED <<faults, disk, CACHE>>
       \/ CleanupCaught(h)
    /\ UNCHANGED <<impl, gasUrl, dirs, boot>>

\* await fs.unlink(filePath) settles (ENOENT when the file is gone); the cache
\* entry is deleted and the loop goes on.
CleanupUnlink(h) ==
    /\ req[h].pc = "cl_unlink"
    /\ LET w   == req[h].walk
           c   == Head(w.cs)
           key == <<Head(w.ys), Head(w.ms)>>
           p   == ShardFile(c, key)
       IN \/ /\ p \in DOMAIN disk
             /\ \E t \in DateNow :
                   /\ disk' = Del(disk, p)
                   /\ CACHE' = DropShard(CACHE, c, key)
                   /\ req' = SetReq(Detach(req, CACHE, c, {key} \cap AllKeysOf(CACHE, c)),
                                    h, NextMonth(req[h], w.cs, w.ys, Tail(w.ms), t))
                   /\ now' = t
                   /\ UNCHANGED faults
          \/ /\ p \notin DOMAIN disk
             /\ req' = SetReq(req, h, Resolve(req[h]))
             /\ UNCHANGED <<now, faults, disk, CACHE>>
          \/ CleanupCaught(h)
    /\ UNCHANGED <<impl, gasUrl, dirs, boot>>

\* --------------------------------------------------------------- snapshot
\* What fs.readdir(dir) lists, in name order, for the directories of the tree
\* (the entries of companies/ are listed with those of the data directory).
Present(paths) == SelectSeq(paths, LAMBDA p : p \in DOMAIN disk \/ p \in dirs)
Children(dir) ==
    IF dir = DataDir
    THEN Present(<<ClientsFile, CompanyDir("t1"), CompanyDir("t2"), MetadataFile,
                   SystemConfigFile>>)
    ELSE IF Len(dir) = 2
    THEN LET ys == YearsListed(dir[2])
         IN [i \in 1..Len(ys) |-> YearDir(dir[2], ys[i])]
            \o Present(<<ConfigFile(dir[2])>>)
    ELSE LET ms == MonthsListed(dir[2], dir[4])
         IN [i \in 1..Len(ms) |-> ShardFile(dir[2], <<dir[4], ms[i]>>)]
IsDirPath(p) == p = DataDir \/ Len(p) \in {2, 4}

\* The legacy getBackupData: { clients: CACHE.clients, companies: { id: {
\* config, shifts } } }, written as the files that hold those values.
CachedFiles(cache) ==
    LET shardsOf(c) ==
            LET ks == Listed({k[2] : k \in AllKeysOf(cache, c)})
            IN [i \in 1..Len(ks) |->
                   LET k == CHOOSE q \in AllKeysOf(cache, c) : q[2] = ks[i]
                   IN Item(ShardFile(c, k), cache.companies[c].shifts[k])]
        companyOf(c) ==
            IF cache.companies[c].k = "company"
            THEN <<Item(ConfigFile(c), cache.companies[c].config)>> \o shardsOf(c)
            ELSE <<>>
    IN <<Item(ClientsFile, cache.clients)>> \o companyOf("t1") \o companyOf("t2")

\* getBackupData(): lastWriteTime: await this.getLastWriteTime()
BeginGetBackupData(h) ==
    /\ Fresh(req[h])
    /\ req' = SetReq(req, h, [Idle EXCEPT !.op = "getBackupData", !.pc = "bk_meta"])
    /\ UNCHANGED <<impl, gasUrl, now, faults, disk, dirs, CACHE, boot>>

\* The metadata read settles.  The generic revision starts readDirRec on the
\* data directory; the legacy one copies the cache and returns.
BackupMeta(h) ==
    /\ req[h].pc = "bk_meta"
    /\ LET r == [req[h] EXCEPT !.stamp = LastWriteTimeOf(disk)]
       IN req' = SetReq(req, h,
                    IF impl = "generic"
                    THEN [r EXCEPT !.pc = "bk_walk", !.todo = <<DataDir>>]
                    ELSE [Resolve(r) EXCEPT !.stamp = r.stamp,
                                            !.files = CachedFiles(CACHE)])
    /\ UNCHANGED <<impl, gasUrl, now, faults, disk, dirs, CACHE, boot>>

\* readDirRec: the next entry is a directory, whose listing is walked first, or
\* a .json file, pushed as { path, content } when it reads and parses.
Visit(r, p) ==
    IF IsDirPath(p)
    THEN [r EXCEPT !.todo = (IF p \in dirs THEN Children(p) ELSE <<>>) \o Tail(@)]
    ELSE [r EXCEPT !.todo = Tail(@),
                   !.files = IF Readable(disk, p)
                             THEN Append(@, Item(p, disk[p].v)) ELSE @]
BackupWalk(h) ==
    /\ req[h].pc = "bk_walk"
    /\ LET r == Visit(req[h], Head(req[h].todo))
       IN req' = SetReq(req, h,
                    IF r.todo = <<>>
                    THEN [Resolve(r) EXCEPT !.stamp = r.stamp, !.files = r.files]
                    ELSE r)
    /\ UNCHANGED <<impl, gasUrl, now, faults, disk, dirs, CACHE, boot>>

\* POST /user/export -> getShifts(companyId, year, m) for the twelve months of
\* the current year.
ExportKeys == {<<2024, 10>>, <<2024, 12>>}
BeginGetShifts(h) ==
    /\ Fresh(req[h])
    /\ \E c \in Tenants, key \in ExportKeys :
          LET r0 == [Idle EXCEPT !.op = "getShifts", !.c = c, !.key = key]
              n  == NeedCompany(r0, CACHE)
          IN req' = SetReq(req, h, n.r) /\ CACHE' = n.cache
    /\ UNCHANGED <<impl, gasUrl, now, faults, disk, dirs, boot>>

\* ------------------------------------------------ several clock-in requests
\* The same process serving two POST /shift requests, which may overlap.
Requests == {"h1", "h2"}
\* No archive is configured (GAS_COLD_STORAGE_URL unset) and no fs call fails
\* except for ENOENT: the fault budget starts spent.
QuietInit(requests) ==
    /\ impl \in {"generic", "legacy"}
    /\ gasUrl = FALSE
    /\ now = 3
    /\ faults = MaxFaults
    /\ disk \in InitDisks
    /\ dirs = DirsOfDisk(disk)
    /\ CACHE = NewCache
    /\ boot = BootStart
    /\ req = [h \in requests |-> Idle]
ShiftInit == QuietInit(Requests)

ShiftStep(h) ==
    \/ BeginLogShift(h)
    \/ LoadCompanyMkdir(h) \/ LoadCompanyRead(h) \/ GetShiftsRead(h)
    \/ SaveShiftsMkdir(h) \/ SaveShiftsWrite(h) \/ UpdateLastWriteTime(h)

ShiftNext == LocalBootStep \/ (\E h \in Requests : ShiftStep(h))

ShiftSpec == ShiftInit /\ [][ShiftNext]_vars

\* --------------------------------------------- one client, request after request
\* The number of shift entries stored in the shard files.
EntriesOf(sh, e) == IF e \in DOMAIN sh THEN sh[e] ELSE <<>>
RECURSIVE CountEntries(_, _)
CountEntries(d, paths) ==
    IF paths = {} THEN 0
    ELSE LET p == CHOOSE q \in paths : TRUE
         IN (IF IsShardPath(p) /\ d[p].ok THEN Len(EntriesOf(d[p].v, "e1")) ELSE 0)
            + CountEntries(d, paths \ {p})

\* The route handler has answered; the client sends its next request.  The
\* model stops sending once the shard files hold MaxEntries entries.
NextRequest(h) ==
    /\ req[h].pc = "idle" /\ req[h].res # "none"
    /\ CountEntries(disk, DOMAIN disk) < MaxEntries
    /\ req' = SetReq(req, h, Idle)
    /\ UNCHANGED <<impl, gasUrl, now, faults, disk, dirs, CACHE, boot>>

SeqNext ==
    \/ LocalBootStep
    \/ \E h \in Handlers :
          ShiftStep(h) \/ BeginGetEmployeeStatus(h) \/ NextRequest(h)

SeqInit == QuietInit(Handlers)
SeqSpec == SeqInit /\ [][SeqNext]_vars

\* ----------------------------------------------------- two history requests
\* The process, with or without an archive URL, serving two GET /history
\* requests, which may overlap; no fs call fails.
ColdInit ==
    /\ impl \in {"generic", "legacy"}
    /\ gasUrl \in BOOLEAN
    /\ now = 3
    /\ faults = MaxFaults
    /\ disk \in InitDisks
    /\ dirs = DirsOfDisk(disk)
    /\ CACHE = NewCache
    /\ boot = BootStart
    /\ req = [h \in Requests |-> Idle]

ColdStep(h) ==
    \/ BeginGetShiftsHybrid(h)
    \/ LoadCompanyMkdir(h) \/ LoadCompanyRead(h) \/ GetShiftsRead(h)
    \/ ColdGet(h)

ColdNext == BootStep \/ (\E h \in Requests : ColdStep(h))

ColdSpec == ColdInit /\ [][ColdNext]_vars

\* ---------------------------------------------- the sweep beside requests
\* A data tree with shards of October 2024 (cold) and December 2024.
OldShard == ClosedShift(1, 2)
AgedDisk ==
    [p \in (DOMAIN WarmDisk(Text(1)))
            \cup {ShardFile("t1", <<2024, 10>>), ConfigFile("t2"),
                  ShardFile("t2", <<2024, 10>>)} |->
        IF p \in DOMAIN WarmDisk(Text(1)) THEN
            (IF p = ClientsFile THEN Text(<<"t1", "t2">>) ELSE WarmDisk(Text(1))[p])
        ELSE IF p = ConfigFile("t2") THEN Text(Cfg("t2", "local", Undefined))
        ELSE Text(OldShard)]
SweepInit ==
    /\ impl \in {"generic", "legacy"}
    /\ gasUrl = FALSE
    /\ now = 3
    /\ faults = 0
    /\ disk \in {AgedDisk, WipedDisk}
    /\ dirs = DirsOfDisk(disk)
    /\ CACHE = NewCache
    /\ boot = BootStart
    /\ req = [h \in Requests |-> Idle]

\* One scheduled sweep, and one request that reads or logs.
Sweeper == "h1"
Client  == "h2"
SweepStep(h) ==
    \/ BeginCleanup(h) \/ CleanupCompanies(h) \/ CleanupCompany(h)
    \/ CleanupYear(h) \/ CleanupUnlink(h)

SweepNext ==
    \/ LocalBootStep
    \/ SweepStep(Sweeper)
    \/ BeginGetShifts(Client) \/ ShiftStep(Client)

SweepSpec == SweepInit /\ [][SweepNext]_vars

\* --------------------------------------------- a snapshot beside a reader
\* GET backup (getBackupData) while init() and one reading request run; no fs
\* call fails and nothing writes a file.
BackupInit ==
    /\ impl \in {"generic", "legacy"}
    /\ gasUrl = FALSE
    /\ now = 3
    /\ faults = MaxFaults
    /\ disk \in InitDisks \cup {AgedDisk}
    /\ dirs = DirsOfDisk(disk)
    /\ CACHE = NewCache
    /\ boot = BootStart
    /\ req = [h \in Requests |-> Idle]

BackupStep(h) == BeginGetBackupData(h) \/ BackupMeta(h) \/ BackupWalk(h)
ReadStep(h) ==
    \/ BeginGetShifts(h)
    \/ LoadCompanyMkdir(h) \/ LoadCompanyRead(h) \/ GetShiftsRead(h)

BackupNext == LocalBootStep \/ BackupStep(Sweeper) \/ ReadStep(Client)

BackupSpec == BackupInit /\ [][BackupNext]_vars

\* ------------------------------------- the same shard read twice in a row
\* The aged tree with the December 2024 shard of t1 cut short by a crash.
BrokenDisk == [AgedDisk EXCEPT ![ShardFile("t1", KeyOf(3))] = Corrupt]
IdemInit ==
    /\ impl \in {"generic", "legacy"}
    /\ gasUrl = FALSE
    /\ now = 3
    /\ faults = 0
    /\ disk \in {AgedDisk, BrokenDisk}
    /\ dirs = DirsOfDisk(disk)
    /\ CACHE = NewCache
    /\ boot = BootStart
    /\ req = [h \in Requests |-> Idle]

\* The caller of a getShifts that has returned calls it again with the same
\* arguments, keeping the first result (obj) to compare; phase numbers the call.
AgainGetShifts(h) ==
    /\ req[h].pc = "idle" /\ req[h].res = "ok"
    /\ req[h].op = "getShifts" /\ req[h].phase = 0
    /\ LET r0 == [Idle EXCEPT !.op = "getShifts", !.c = req[h].c,
                              !.key = req[h].key, !.obj = req[h].data,
                              !.phase = 1]
           n  == NeedCompany(r0, CACHE)
       IN req' = SetReq(req, h, n.r) /\ CACHE' = n.cache
    /\ UNCHANGED <<impl, gasUrl, now, faults, disk, dirs, boot>>

IdemNext ==
    \/ LocalBootStep
    \/ SweepStep(Sweeper)
    \/ ReadStep(Client) \/ AgainGetShifts(Client)

IdemSpec == IdemInit /\ [][IdemNext]_vars

\* --------------------------------------- tenant configuration read and edited
\* getCompanyConfig(companyId)
BeginGetCompanyConfig(h) ==
    /\ Fresh(req[h])
    /\ \E c \in Tenants :
          LET r0 == [Idle EXCEPT !.op = "getCompanyConfig", !.c = c]
              n  == NeedCompany(r0, CACHE)
          IN req' = SetReq(req, h, n.r) /\ CACHE' = n.cache
    /\ UNCHANGED <<impl, gasUrl, now, faults, disk, dirs, boot>>

\* case 'updateBusinessConfig': updateCompanyConfig(companyId, rest), with the
\* keys the admin form sent: the settings, or the admin e-mail.
Patches == {Cfg(Undefined, "edited", Undefined), Cfg(Undefined, Undefined, "mail")}
BeginUpdateBusinessConfig(h) ==
    /\ Fresh(req[h])
    /\ \E c \in Tenants, patch \in Patches :
          LET r0 == [Idle EXCEPT !.op = "updateCompanyConfig", !.c = c, !.t0 = now,
                                 !.cfg = patch]
              n  == NeedCompany(r0, CACHE)
          IN req' = SetReq(req, h, n.r) /\ CACHE' = n.cache
    /\ UNCHANGED <<impl, gasUrl, now, faults, disk, dirs, boot>>

\* Two admin requests, which may overlap, beside init(); fs calls may fail.
ConfigInit ==
    /\ impl \in {"generic", "legacy"}
    /\ gasUrl = FALSE
    /\ now = 3
    /\ faults = 0
    /\ disk \in InitDisks
    /\ dirs = DirsOfDisk(disk)
    /\ CACHE = NewCache
    /\ boot = BootStart
    /\ req = [h \in Requests |-> Idle]

ConfigStep(h) ==
    \/ BeginGetCompanyConfig(h) \/ BeginUpdateBusinessConfig(h)
    \/ LoadCompanyMkdir(h) \/ LoadCompanyRead(h)
    \/ UpdateConfigMkdir(h) \/ UpdateConfigWrite(h) \/ UpdateLastWriteTime(h)

ConfigNext == LocalBootStep \/ (\E h \in Requests : ConfigStep(h))

ConfigSpec == ConfigInit /\ [][ConfigNext]_vars

\* ----------------------------------------- admin edits and the auto check-out
\* POST /admin/shift/update -> adminSaveShift(companyId, req.body): the body
\* names the month, the employee, the start of the entry to edit (or none)
\* and the new start and end, none of which the route validates.
Edits == {<<2, 3>>, <<2, Null>>, <<Null, Null>>}
BeginAdminSaveShift(h) ==
    /\ Fresh(req[h])
    /\ \E c \in Tenants, e \in Employees, orig \in {Null, 1}, ed \in Edits :
          LET r0 == [Idle EXCEPT !.op = "adminSaveShift", !.c = c, !.key = KeyOf(now),
                                 !.emp = e, !.ts = orig,
                                 !.newStart = ed[1], !.newEnd = ed[2]]
              n  == NeedCompany(r0, CACHE)
          IN req' = SetReq(req, h, n.r) /\ CACHE' = n.cache
    /\ UNCHANGED <<impl, gasUrl, now, faults, disk, dirs, boot>>

\* performAutoCheckout(): const now = new Date(); for (const client of CACHE.clients)
BeginAutoCheckout(h) ==
    /\ Fresh(req[h])
    /\ \E t \in DateNow :
          LET r0 == [Idle EXCEPT !.op = "performAutoCheckout", !.ts = t,
                                 !.key = KeyOf(t),
                                 !.walk = Walk(CACHE.clients, <<>>, <<>>)]
              n  == AutoFrom(r0, CACHE)
          IN req' = SetReq(req, h, n.r) /\ CACHE' = n.cache /\ now' = t
    /\ UNCHANGED <<impl, gasUrl, faults, disk, dirs, boot>>

\* One request that clocks in or out or edits an entry, and one scheduled auto
\* check-out, beside init(); no fs call fails.
Editor == "h1"
Cron   == "h2"
EditInit == QuietInit(Requests)
SaveStep(h) ==
    \/ LoadCompanyMkdir(h) \/ LoadCompanyRead(h) \/ GetShiftsRead(h)
    \/ SaveShiftsMkdir(h) \/ SaveShiftsWrite(h) \/ UpdateLastWriteTime(h)
EditNext ==
    \/ LocalBootStep
    \/ BeginLogShift(Editor) \/ BeginAdminSaveShift(Editor)
    \/ BeginAutoCheckout(Cron)
    \/ \E h \in Requests : SaveStep(h)

EditSpec == EditInit /\ [][EditNext]_vars

\* --------------------------------------- a clock-in read back through /history
\* POST /shift with a timestamp in the body: logShift(companyId, userName,
\* action, timestamp), here a time in October 2024 (model times -8..-5).
PastTimes == {-8}
BeginLogShiftAt(h) ==
    /\ Fresh(req[h])
    /\ \E c \in Tenants, e \in Employees, a \in {"IN", "OUT"}, t \in PastTimes :
          LET r0 == [Idle EXCEPT !.op = "logShift", !.c = c, !.key = KeyOf(t),
                                 !.emp = e, !.act = a, !.ts = t, !.t0 = now]
              n  == NeedCompany(r0, CACHE)
          IN req' = SetReq(req, h, n.r) /\ CACHE' = n.cache
    /\ UNCHANGED <<impl, gasUrl, now, faults, disk, dirs, boot>>

\* The client whose POST /shift has been answered with success sends
\* GET /history.
ReadBack(h) ==
    /\ req[Editor].op = "logShift" /\ req[Editor].res = "ok"
    /\ BeginGetShiftsHybrid(h)

RywInit ==
    /\ impl \in {"generic", "legacy"}
    /\ gasUrl \in BOOLEAN
    /\ now = 3
    /\ faults = MaxFaults
    /\ disk \in {WipedDisk, WarmDisk(Text(1))}
    /\ dirs = DirsOfDisk(disk)
    /\ CACHE = NewCache
    /\ boot = BootStart
    /\ req = [h \in Requests |-> Idle]

RywNext ==
    \/ BootStep
    \/ BeginLogShift(Editor) \/ BeginLogShiftAt(Editor) \/ SaveStep(Editor)
    \/ ReadBack(Client)
    \/ LoadCompanyMkdir(Client) \/ LoadCompanyRead(Client) \/ GetShiftsRead(Client)
    \/ ColdGet(Client)

RywSpec == RywInit /\ [][RywNext]_vars

\* ------------------------------------------- a snapshot beside a clock-in
\* GET backup (getBackupData) while init() and one POST /shift run; no
\* archive is configured and no fs call fails.
SnapInit == QuietInit(Requests)
SnapNext == LocalBootStep \/ ShiftStep(Editor) \/ BackupStep(Client)
SnapSpec == SnapInit /\ [][SnapNext]_vars

\* --------------------------------------------- two tenants side by side
\* One request that writes (POST /shift, updateCompanyConfig) and one that
\* reads (GET /history), each addressed to either tenant, on a tree that holds
\* files of both; the archive may be configured; no fs call fails.
IsoInit ==
    /\ impl \in {"generic", "legacy"}
    /\ gasUrl \in BOOLEAN
    /\ now = 3
    /\ faults = MaxFaults
    /\ disk = AgedDisk
    /\ dirs = DirsOfDisk(disk)
    /\ CACHE = NewCache
    /\ boot = BootStart
    /\ req = [h \in Requests |-> Idle]
WriteStep(h) ==
    \/ BeginUpdateCompanyConfig(h) \/ UpdateConfigMkdir(h) \/ UpdateConfigWrite(h)
    \/ ShiftStep(h)
IsoNext == BootStep \/ WriteStep(Editor) \/ ColdStep(Client)
IsoSpec == IsoInit /\ [][IsoNext]_vars

\* ------------------------------------------ the process started a second time
\* init() with an archive configured and nothing else running; once it has
\* restored the files of a payload and finished, the process is restarted on
\* the tree it left and the archive serves the payload it served before.  No
\* fs call fails.
RestartInit ==
    /\ impl \in {"generic", "legacy"}
    /\ gasUrl = TRUE
    /\ now = 3
    /\ faults = MaxFaults
    /\ disk \in InitDisks
    /\ dirs = DirsOfDisk(disk)
    /\ CACHE = NewCache
    /\ boot = BootStart
    /\ req = [h \in Requests |-> Idle]
\* A new process: `const CACHE = {...}` and `new DataManager()` run again.  The
\* record keeps the archive's payload and what the first run decided.
Restart ==
    /\ boot.pc = "done" /\ boot.runs = 1
    /\ boot.decision = "restore" /\ boot.backup.tree /\ boot.restored # {}
    /\ boot' = [BootStart EXCEPT !.runs = 1, !.backup = boot.backup,
                                 !.remoteTime = boot.remoteTime,
                                 !.decision = boot.decision]
    /\ CACHE' = NewCache
    /\ UNCHANGED <<impl, gasUrl, now, faults, disk, dirs, req>>
\* The second run's GET ?path=restore answers with the same payload.
FetchAgain ==
    /\ boot.pc = "i_fetch" /\ boot.runs = 2
    /\ LET d == Decide(boot, CACHE)
       IN boot' = d.boot /\ CACHE' = d.cache
    /\ UNCHANGED <<impl, gasUrl, now, faults, disk, dirs, req>>
FirstFetch == boot.runs = 1 /\ BootFetch
RestartNext ==
    \/ LocalBootStep \/ FirstFetch \/ FetchAgain
    \/ RestoreMkdir \/ RestoreWrite \/ RestoreMeta
    \/ Restart
RestartSpec == RestartInit /\ [][RestartNext]_vars

\* ------------------------------------------------------ isHotMonth by itself
\* isHotMonth(year, month) called with any arguments a route can pass
\* (parseInt of the query) on any date from December 2024 to January 2026.
Years  == 2023..2026
Months == 0..13
Dates  == 0..55
HotInit ==
    /\ impl \in {"generic", "legacy"}
    /\ gasUrl = FALSE
    /\ now \in Dates
    /\ faults = MaxFaults
    /\ disk = WipedDisk
    /\ dirs = {}
    /\ CACHE = NewCache
    /\ boot = BootStart
    /\ \E y \in Years, m \in Months :
          req = [h \in Handlers |-> [Idle EXCEPT !.key = <<y, m>>]]

IsHotMonthCall(h) ==
    /\ Fresh(req[h])
    /\ LET r == [req[h] EXCEPT !.op = "isHotMonth", !.ts = now]
       IN req' = SetReq(req, h,
                    Finish(r, IF IsHotMonth(r.key[1], r.key[2], now)
                              THEN "true" ELSE "false"))
    /\ UNCHANGED <<impl, gasUrl, now, faults, disk, dirs, CACHE, boot>>

HotNext == \E h \in Handlers : IsHotMonthCall(h)

HotSpec == HotInit /\ [][HotNext]_vars

TypeOK ==
    /\ now \in 3..MaxClock
    /\ faults \in 0..MaxFaults
    /\ boot.runs \in 0..1

\* ================================================================== claims
InRestore == boot.pc \in {"r_mkdir", "r_write", "r_meta"}
Reconciling == boot.pc # "done"
Running(r) == r.pc # "idle"

\* C1: startup reconciliation completes before any store operation called by
\* an HTTP handler begins - no handler operation is in progress while init()
\* has not finished - and reconciliation runs at most once per process.
C1_ReconciliationBeforeHandlers ==
    /\ \A h \in Handlers : Running(req[h]) => ~Reconciling
    /\ boot.runs <= 1

\* C2: when the snapshot is fetched and localTime > 0 and localTime >=
\* remoteTime (equality included), reconciliation takes Skip: the step that
\* decides changes no file, no directory, no metadata and no cache entry, and
\* no restore step ever runs afterwards.
FetchSucceeds == boot.pc = "i_fetch" /\ boot'.decision \in {"skip", "restore"}
C2_SkipWhenLocalIsFresh ==
    /\ [][(FetchSucceeds /\ boot.localTime > 0 /\ boot.localTime >= boot'.remoteTime)
            => /\ boot'.decision = "skip"
               /\ disk' = disk /\ dirs' = dirs /\ CACHE' = CACHE
               /\ boot'.pc \in {"w_mkdir", "done"}]_vars
    /\ [](boot.decision = "skip" => ~InRestore /\ boot.restored = {})

C2_Witness ==
    /\ boot.decision = "skip"
    /\ boot.localTime > 0
    /\ boot.localTime = boot.remoteTime
    /\ boot.backup.tree /\ Len(boot.backup.files) > 0

\* The step in which smartRestoreFromGAS returns after having chosen Restore.
RestoreEnds ==
    boot.result = "none" /\ boot'.result # "none" /\ boot'.decision = "restore"
\* No HTTP request has called the store / no fs call has failed so far.
NoRequestYet == \A h \in Handlers : Fresh(req'[h])
NoFault      == faults' = 0
Holds(d, item) == item.path \in DOMAIN d /\ d[item.path] = Text(item.content)
ItemsOf(b) == {b.backup.files[i] : i \in 1..Len(b.backup.files)}

\* C3 (as stated): when the snapshot is fetched and localTime = 0 or remoteTime
\* > localTime, Restore happens, and when it has finished every file of the
\* snapshot holds the snapshot's content locally (checked for startups during
\* which no HTTP request has touched the store).
C3_RestoreWritesEveryFile ==
    /\ [][(FetchSucceeds /\ (boot.localTime = 0 \/ boot'.remoteTime > boot.localTime))
            => boot'.decision = "restore"]_vars
    /\ [][(RestoreEnds /\ NoRequestYet)
            => \A item \in ItemsOf(boot') : Holds(disk', item)]_vars

\* C3 (amended): Restore is chosen exactly when localTime = 0 or remoteTime >
\* localTime; every snapshot file whose write succeeds holds the snapshot's
\* content once that write completes, whatever was there before; the
\* files-format revision attempts every file of the snapshot (each is written
\* or logged as failed), the clients/companies revision writes every file
\* unless a mkdir, a write or its cache update fails.
C3_RestoreWritesFilesThatSucceed ==
    /\ [][FetchSucceeds =>
            (boot'.decision = "restore"
               <=> (boot.localTime = 0 \/ boot'.remoteTime > boot.localTime))]_vars
    /\ [][(boot.pc = "r_write" /\ boot'.restored # boot.restored)
            => Holds(disk', boot.backup.files[boot.idx])]_vars
    /\ [][(RestoreEnds /\ (impl = "generic" \/ boot'.result = "true"))
            => \A item \in ItemsOf(boot') :
                  item.path \in boot'.restored \cup boot'.failed]_vars

C3_Witness ==
    /\ boot.decision = "restore" /\ boot.result # "none"
    /\ boot.localTime > 0
    /\ boot.backup.files = TreeFull
    /\ boot.restored = {item.path : item \in ItemsOf(boot)}
    /\ \A item \in ItemsOf(boot) : Holds(disk, item)

\* C4: whenever Restore is performed, the local write-time metadata equals the
\* snapshot's remoteTime when reconciliation finishes (checked for startups in
\* which no fs call fails, no HTTP request has touched the store, and the
\* payload carries files and a remoteTime > 0).
C4_MetadataEqualsRemoteTime ==
    [][(RestoreEnds /\ NoFault /\ NoRequestYet
          /\ boot'.backup.tree /\ boot'.remoteTime > 0)
        => LastWriteTimeOf(disk') = boot'.remoteTime]_vars

\* C5: after Restore completes the cache agrees with the restored files: the
\* in-memory tenant list equals the restored clients.json, and every cached
\* config and month-shard whose file was restored equals the restored content
\* (checked for startups in which no fs call fails and no HTTP request has
\* touched the store).
ContentOf(b, p) == (CHOOSE item \in ItemsOf(b) : item.path = p).content
C5_CacheAgreesAfterRestore ==
    [][(RestoreEnds /\ NoFault /\ NoRequestYet) =>
        /\ ClientsFile \in boot'.restored
              => CACHE'.clients = ContentOf(boot', ClientsFile)
        /\ \A c \in Tenants :
              (ConfigFile(c) \in boot'.restored /\ CACHE'.companies[c].k = "company")
                 => CACHE'.companies[c].config = ContentOf(boot', ConfigFile(c))
        /\ \A c \in Tenants, key \in ShardKeys :
              (/\ ShardFile(c, key) \in boot'.restored
               /\ CACHE'.companies[c].k = "company"
               /\ key \in DOMAIN CACHE'.companies[c].shifts)
                 => CACHE'.companies[c].shifts[key] = ContentOf(boot', ShardFile(c, key))
      ]_vars

\* C6: if the snapshot request fails, times out, returns unparseable data or
\* success = false, reconciliation takes Skip: the step changes no file, no
\* directory, no metadata and no cache entry, init() goes on to the warmup
\* without an error, and no restore step ever runs.
C6_FetchFailureSkips ==
    /\ [][(boot.pc = "i_fetch" /\ boot'.decision \in {"threw", "failure"})
            => /\ disk' = disk /\ dirs' = dirs /\ CACHE' = CACHE
               /\ boot'.result = "false"
               /\ boot'.pc \in {"w_mkdir", "done"}
               /\ ~boot'.error]_vars
    /\ [](boot.decision \in {"threw", "failure"} => ~InRestore /\ boot.restored = {})

C6_Witness ==
    /\ boot.decision = "threw"
    /\ boot.localTime > 0
    /\ boot.pc = "done" /\ ~boot.error
    /\ LastWriteTimeOf(disk) = boot.localTime

\* The event loop completes every pending I/O call of init(): it succeeds,
\* fails or times out.
FairSpec == Spec /\ WF_vars(BootStep)

AllWarmed(cache) ==
    \A i \in 1..Len(cache.clients) : cache.companies[cache.clients[i]].k = "company"
InitEnds == boot.pc # "done" /\ boot'.pc = "done"

\* C7: under fairness init() always ends in Done with the tenant list loaded
\* and every listed tenant's config warmed into the cache, whatever the disk
\* and remote calls do (checked for startups during which no HTTP request has
\* touched the store).
C7_InitEndsWithEveryTenantWarmed ==
    [][(InitEnds /\ NoRequestYet) => (~boot'.error /\ AllWarmed(CACHE'))]_vars

\* C8: if writing one file of the snapshot fails during Restore, every other
\* snapshot file is still written and the restore still finishes: it returns
\* true and the local metadata is remoteTime (checked for startups during
\* which no HTTP request has touched the store).
C8_FileFailureIsNotFatal ==
    [][(RestoreEnds /\ boot'.failed # {} /\ NoRequestYet)
        => /\ \A item \in ItemsOf(boot') :
                 item.path \notin boot'.failed => item.path \in boot'.restored
           /\ boot'.result = "true"
           /\ boot'.remoteTime > 0 => LastWriteTimeOf(disk') = boot'.remoteTime]_vars

\* C9: the locally persisted lastWriteTime never decreases.
C9_LastWriteTimeNeverDecreases ==
    [][LastWriteTimeOf(disk') >= LastWriteTimeOf(disk)]_vars

\* C10: whenever a mutation (saveShifts via logShift, updateCompanyConfig,
\* saveClients, createBusiness, updateSystemConfig) returns successfully, the
\* persisted lastWriteTime is at least the clock value at which it began.
C10_SuccessStampsMetadata ==
    [][\A h \in Handlers :
          (Running(req[h]) /\ req'[h].pc = "idle" /\ req'[h].res = "ok")
             => LastWriteTimeOf(disk') >= req[h].t0]_vars

\* An employee's entries in a shard object / in a shard file ("" when the
\* file is absent or unreadable).
DiskShard(d, c, key) ==
    IF Readable(d, ShardFile(c, key)) THEN d[ShardFile(c, key)].v ELSE EmptyShard
DiskConfig(d, c) ==
    IF Readable(d, ConfigFile(c)) THEN d[ConfigFile(c)].v ELSE DefaultConfig(c)
CachedShard(cache, c, key) == cache.companies[c].shifts[key]

\* C11: every shard and config held in the cache equals what reading the
\* corresponding file after a cache flush yields (empty / default when the file
\* is absent): no mutation shows in the cache before its disk write has
\* completed (checked in states reached without any fs failure and without a
\* restore).
CacheMatchesDisk ==
    \A c \in Tenants :
        CACHE.companies[c].k = "company" =>
            /\ CACHE.companies[c].config = DiskConfig(disk, c)
            /\ \A key \in DOMAIN CACHE.companies[c].shifts :
                  StringifyShard(CachedShard(CACHE, c, key)) = DiskShard(disk, c, key)
C11_CacheReproducibleFromDisk ==
    (faults = 0 /\ boot.decision # "restore") => CacheMatchesDisk

\* A finished logShift call of request h.
Logged(r, act) == r.pc = "idle" /\ r.res = "ok" /\ r.op = "logShift" /\ r.act = act
\* seq holds an entry started at a and a different entry started at b.
HoldsBoth(seq, a, b) ==
    \E i, j \in 1..Len(seq) : i # j /\ seq[i].start = a /\ seq[j].start = b

\* C12: two logShift(IN) calls for the same (tenant, year, month), interleaved
\* at any suspension point, both take effect: once both have completed, the
\* cached shard contains the entries of both calls.
C12_NoLostUpdate ==
    \A g, h \in DOMAIN req :
        (/\ g # h /\ Logged(req[g], "IN") /\ Logged(req[h], "IN")
         /\ req[g].c = req[h].c /\ req[g].key = req[h].key
         /\ req[g].emp = req[h].emp)
        => /\ CACHE.companies[req[g].c].k = "company"
           /\ req[g].key \in DOMAIN CACHE.companies[req[g].c].shifts
           /\ HoldsBoth(EntriesOf(CachedShard(CACHE, req[g].c, req[g].key), req[g].emp),
                        req[g].ts, req[h].ts)

\* At most one entry of seq has a null end, and it is the last one.
OpenOnlyLast(seq) == \A i \in 1..Len(seq) : seq[i].end = Null => i = Len(seq)

\* C13: in every reachable state of every shard file, at most one entry of an
\* employee's sequence has a null end, and if one exists it is the last entry.
C13_OnlyLastEntryOpen ==
    \A c \in Tenants, key \in ShardKeys :
        \A e \in DOMAIN DiskShard(disk, c, key) :
            OpenOnlyLast(DiskShard(disk, c, key)[e])

\* The step in which logShift of request h applies its IN / OUT branch to the
\* shard object getShifts returned: the cached one, or the one just read.
Mutates(h) ==
    /\ req[h].pc \in {"idle", "gs_read"} /\ req'[h].pc = "ss_mkdir"
    /\ req'[h].op = "logShift"
Before(h) ==
    LET r == req'[h] IN
    IF req[h].pc = "gs_read" THEN DiskShard(disk, r.c, r.key)
    ELSE StringifyShard(CachedShard(CACHE, r.c, r.key))
After(h) == LET r == req'[h] IN StringifyShard(CachedShard(CACHE', r.c, r.key))
HasOpen(seq) == \E i \in 1..Len(seq) : seq[i].end = Null
LastOpen(seq) ==
    CHOOSE i \in 1..Len(seq) :
        seq[i].end = Null /\ \A j \in 1..Len(seq) : seq[j].end = Null => j <= i

\* C14: logShift with action OUT never rejects; if the employee has an open
\* entry (null end) in the shard it closes the last such entry by setting its
\* end to the timestamp, and only if there is none does it append a closed
\* entry {start: null, end: timestamp}.
C14_OutClosesLastOpenEntry ==
    /\ [](\A h \in DOMAIN req :
            (req[h].op = "logShift" /\ req[h].act = "OUT") => req[h].res # "rejected")
    /\ [][\A h \in DOMAIN req :
            (Mutates(h) /\ req'[h].act = "OUT") =>
                LET r    == req'[h]
                    pre  == EntriesOf(Before(h), r.emp)
                    post == EntriesOf(After(h), r.emp)
                IN IF HasOpen(pre)
                   THEN post = [pre EXCEPT ![LastOpen(pre)].end = r.ts]
                   ELSE post = Append(pre, Entry(Null, r.ts, "none"))]_vars

\* C15: logShift only appends.  IN adds exactly one new entry {start:
\* timestamp, end: null} at the end of the employee's sequence in the shard of
\* the timestamp's (year, month); neither IN nor OUT removes, reorders or alters
\* the start of an existing entry; no other employee's sequence and no other
\* cached shard changes in that step, and the write that follows replaces that
\* shard's file only, keeping every stored entry's place and start.
KeepsEntries(pre, post) ==
    /\ Len(post) >= Len(pre)
    /\ \A i \in 1..Len(pre) : post[i].start = pre[i].start
OtherShardsKept(cache1, cache2, c, key) ==
    \A d \in Tenants :
        cache1.companies[d].k = "company" =>
            /\ cache2.companies[d].k = "company"
            /\ \A k \in DOMAIN cache1.companies[d].shifts :
                  (d # c \/ k # key) =>
                      /\ k \in DOMAIN cache2.companies[d].shifts
                      /\ cache2.companies[d].shifts[k] = cache1.companies[d].shifts[k]
C15_LogShiftOnlyAppends ==
    /\ [][\A h \in DOMAIN req :
            Mutates(h) =>
                LET r    == req'[h]
                    pre  == EntriesOf(Before(h), r.emp)
                    post == EntriesOf(After(h), r.emp)
                IN /\ r.key = KeyOf(r.ts)
                   /\ r.act = "IN" => post = Append(pre, Entry(r.ts, Null, "none"))
                   /\ KeepsEntries(pre, post)
                   /\ \A x \in DOMAIN Before(h) :
                         x # r.emp => (x \in DOMAIN After(h) /\ After(h)[x] = Before(h)[x])
                   /\ OtherShardsKept(CACHE, CACHE', r.c, r.key)]_vars
    /\ [][\A h \in DOMAIN req :
            (req[h].pc = "ss_write" /\ req'[h].pc = "ult_write") =>
                LET r == req[h]
                IN /\ \A p \in DOMAIN disk :
                         p # ShardFile(r.c, r.key) => (p \in DOMAIN disk' /\ disk'[p] = disk[p])
                   /\ \A x \in DOMAIN DiskShard(disk, r.c, r.key) :
                         /\ x \in DOMAIN DiskShard(disk', r.c, r.key)
                         /\ KeepsEntries(DiskShard(disk, r.c, r.key)[x],
                                         DiskShard(disk', r.c, r.key)[x])]_vars

\* The tenant's shard files hold, for employee e, the single entry x.
Only(d, c, e, x) ==
    \E k \in ShardKeys :
        /\ EntriesOf(DiskShard(d, c, k), e) = <<x>>
        /\ \A j \in ShardKeys \ {k} : EntriesOf(DiskShard(d, c, j), e) = <<>>

\* The timestamps a logShift call of this run can carry (stored entries of
\* earlier runs are older).
RunTimes == 3..MaxClock

\* C16: for a tenant with no prior entries for the employee, after
\* logShift(IN, T0) getEmployeeStatus returns {state: IN, startTime: T0}; a
\* following logShift(OUT, T1) with T1 > T0 leaves exactly one entry for the
\* employee, with start = T0 and end = T1, and getEmployeeStatus then returns
\* {state: OUT}.
C16_InThenOutScenario ==
    /\ [](\A h \in DOMAIN req : \A T0 \in RunTimes :
            LET r == req[h]
            IN (r.op = "getEmployeeStatus" /\ r.res = "ok") =>
                  /\ Only(disk, r.c, r.emp, Entry(T0, Null, "none"))
                        => r.status = Status("IN", T0)
                  /\ (\E T1 \in 0..MaxClock : Only(disk, r.c, r.emp, Entry(T0, T1, "none")))
                        => r.status = Status("OUT", Null))
    /\ [][\A h \in DOMAIN req : \A T0 \in RunTimes :
            LET r == req[h]
            IN (/\ r.pc = "ss_write" /\ req'[h].pc = "ult_write"
                /\ r.op = "logShift" /\ r.act = "OUT" /\ r.ts > T0
                /\ Only(disk, r.c, r.emp, Entry(T0, Null, "none")))
               => Only(disk', r.c, r.emp, Entry(T0, r.ts, "none"))]_vars

\* C17: for every (year, month) and every current date, isHotMonth(year,
\* month) is true exactly when (year, month) is the current calendar month or
\* the one immediately before it, December of year Y-1 preceding January of Y.
MonthNumber(year, month) == 12 * year + (month - 1)
C17_HotIsCurrentOrPreviousMonth ==
    \A h \in DOMAIN req :
        LET r == req[h]
        IN (r.op = "isHotMonth" /\ r.res # "none") =>
              (r.res = "true" <=>
                  /\ r.key[2] \in 1..12
                  /\ MonthNumber(r.key[1], r.key[2])
                        \in {MonthIndex(r.ts) - 1, MonthIndex(r.ts)})

C17_Witness ==
    \E h \in DOMAIN req :
        /\ req[h].op = "isHotMonth" /\ req[h].res = "true"
        /\ req[h].key = <<2024, 12>> /\ KeyOf(req[h].ts) = <<2025, 1>>

\* The getShiftsHybrid call of request r was routed hot: isHotMonth held at
\* the `new Date()` it read.
Hybrid(r)    == r.op = "getShiftsHybrid"
RoutedHot(r) == IsHotMonth(r.key[1], r.key[2], r.ts)
Returns(h)   == req[h].res = "none" /\ req'[h].res = "ok"

\* C18: getShiftsHybrid(t, y, m) returns the local store's shard and issues no
\* remote request when isHotMonth(y, m) holds, and returns the cold-tier
\* client's result - the cached entry's data, the response's data, or {} - and
\* reads no local shard file when it does not.
C18_HybridRoutesByIsHotMonth ==
    /\ [](\A h \in DOMAIN req :
            LET r == req[h]
            IN Hybrid(r) =>
                 /\ RoutedHot(r) => (r.pc # "cold_get" /\ r.calls = 0)
                 /\ ~RoutedHot(r) => r.pc \notin {"lc_mkdir", "lc_read", "gs_read"})
    /\ [][\A h \in DOMAIN req :
            LET r == req'[h]
            IN (Hybrid(r) /\ Returns(h)) =>
                 IF RoutedHot(r)
                 THEN /\ CACHE'.companies[r.c].k = "company"
                      /\ r.key \in DOMAIN CACHE'.companies[r.c].shifts
                      /\ r.data = CachedShard(CACHE', r.c, r.key)
                 ELSE IF req[h].pc = "cold_get"
                 THEN r.data = EmptyShard
                        \/ (/\ <<r.c, r.key>> \in DOMAIN CACHE'.historicalData
                            /\ r.data = CACHE'.historicalData[<<r.c, r.key>>].data)
                 ELSE IF <<r.c, r.key>> \in DOMAIN CACHE.historicalData
                         /\ r.data # EmptyShard
                 THEN r.data = CACHE.historicalData[<<r.c, r.key>>].data
                 ELSE r.data = EmptyShard]_vars

C18_Witness ==
    \E g, h \in DOMAIN req :
        /\ Hybrid(req[g]) /\ RoutedHot(req[g]) /\ req[g].res = "ok"
        /\ req[g].data = WarmShard
        /\ Hybrid(req[h]) /\ ~RoutedHot(req[h]) /\ req[h].res = "ok"
        /\ req[h].data \in ColdData /\ req[h].calls = 1

\* C19: getShiftsHybrid never writes: for every tenant id, year and month (hot
\* or cold, known tenant or not) no step of the call changes a file, a
\* directory or the write-time metadata.
C19_HybridNeverWrites ==
    [][\A h \in DOMAIN req :
          (Hybrid(req'[h]) /\ req'[h] # req[h]) => (disk' = disk /\ dirs' = dirs)]_vars

\* The cache entry fetchColdData finds for request r on cache c.
HasEntry(cache, r) == <<r.c, r.key>> \in DOMAIN cache.historicalData
EntryOf(cache, r)  == cache.historicalData[<<r.c, r.key>>]
ColdCall(h) == Fresh(req[h]) /\ Hybrid(req'[h]) /\ ~RoutedHot(req'[h])
Fetched(r)  == Hybrid(r) /\ ~RoutedHot(r) /\ r.res = "ok"
Apart(a, b) == IF a < b THEN b - a ELSE a - b

\* C20: with the archive URL configured, two fetchColdData calls for the same
\* cold (tenant, year, month) made less than 1 hour apart issue exactly one
\* remote request in total, and a call made once 1 hour or more has elapsed
\* since the cached fetch issues a new remote request.
C20_OneRequestWithinTheHour ==
    /\ [](\A g, h \in DOMAIN req :
            (/\ g # h /\ gasUrl
             /\ Fetched(req[g]) /\ Fetched(req[h])
             /\ req[g].c = req[h].c /\ req[g].key = req[h].key
             /\ Apart(req[g].ts, req[h].ts) < TTL)
            => req[g].calls + req[h].calls = 1)
    /\ [][\A h \in DOMAIN req :
            (/\ ColdCall(h) /\ HasEntry(CACHE, req'[h])
             /\ now' - EntryOf(CACHE, req'[h]).timestamp >= TTL)
            => req'[h].calls = 1]_vars

\* C20 (amended): a fetchColdData call that finds a cache entry less than 1
\* hour old returns the entry's data and issues no remote request; a call that
\* finds no entry, or an entry 1 hour old or older, issues exactly one remote
\* request when the archive URL is configured, and none ({} returned)
\* otherwise; only the data of a response is ever cached, with the time of its
\* arrival.
C20_FreshEntryServesElseOneRequest ==
    /\ [](\A x \in DOMAIN CACHE.historicalData :
            /\ CACHE.historicalData[x].data \in ColdData
            /\ CACHE.historicalData[x].timestamp <= now)
    /\ [][\A h \in DOMAIN req :
            ColdCall(h) =>
                LET r == req'[h]
                IN IF HasEntry(CACHE, r) /\ now' - EntryOf(CACHE, r).timestamp < TTL
                   THEN r.res = "ok" /\ r.calls = 0 /\ r.data = EntryOf(CACHE, r).data
                   ELSE IF gasUrl
                   THEN r.pc = "cold_get" /\ r.calls = 1
                   ELSE r.res = "ok" /\ r.calls = 0 /\ r.data = EmptyShard]_vars

C20_Witness ==
    \E g, h \in DOMAIN req :
        /\ g # h /\ Fetched(req[g]) /\ Fetched(req[h])
        /\ req[g].c = req[h].c /\ req[g].key = req[h].key
        /\ req[g].calls = 1 /\ req[h].calls = 0
        /\ HasEntry(CACHE, req[h]) /\ req[h].data = EntryOf(CACHE, req[h]).data
        /\ req[g].data = req[h].data

\* C21: when the remote per-period request fails or times out, or no archive
\* URL is configured, fetchColdData returns an empty mapping and does not
\* throw, and the failed attempt stores no entry in the cold cache.
C21_ColdFailureIsEmptyAndUncached ==
    /\ [](\A h \in DOMAIN req :
            (Hybrid(req[h]) /\ ~RoutedHot(req[h])) => req[h].res # "rejected")
    /\ [][\A h \in DOMAIN req :
            LET r == req'[h]
            IN /\ (ColdCall(h) /\ ~gasUrl) =>
                     (r.res = "ok" /\ r.data = EmptyShard /\ CACHE' = CACHE)
               /\ (req[h].pc = "cold_get" /\ Returns(h) /\ r.data \notin ColdData) =>
                     (r.data = EmptyShard /\ CACHE' = CACHE)]_vars

C21_Witness ==
    \E h \in DOMAIN req :
        /\ gasUrl /\ Fetched(req[h]) /\ req[h].calls = 1
        /\ req[h].data = EmptyShard /\ ~HasEntry(CACHE, req[h])

\* cleanupOldMonths of request h returns in this step / takes a step.
Sweeping(r)  == r.op = "cleanupOldMonths"
SweepEnds(h) == Sweeping(req[h]) /\ Returns(h)
ColdAt(key, t) == ~IsHotMonth(key[1], key[2], t)
CachedKeys(cache, c) ==
    IF cache.companies[c].k = "company" THEN DOMAIN cache.companies[c].shifts ELSE {}

\* C22: when cleanupOldMonths finishes (no fs call having failed), no shard
\* file exists on disk for any tenant and any (year, month) that is not hot,
\* and the cache holds no shard entry for any such (tenant, year, month).
C22_SweepLeavesNoColdShard ==
    [][\A h \in DOMAIN req :
          (SweepEnds(h) /\ faults' = 0) =>
              /\ \A p \in DOMAIN disk' :
                    IsShardPath(p) => ~ColdAt(ShardKeyOf(p), now')
              /\ \A c \in Tenants : \A k \in CachedKeys(CACHE', c) :
                    ~ColdAt(k, now')]_vars

\* C23: a shard file leaves the disk only in the unlink step of
\* cleanupOldMonths, and only when its (year, month) is not hot; no other file
\* is ever removed; a step of the sweep changes no remaining file (hot shards,
\* config.json), no directory, no cached config and no cached shard other than
\* the entry of the file it removes.
C23_OnlySweepRemovesAndOnlyCold ==
    /\ [][\A p \in (DOMAIN disk) \ (DOMAIN disk') :
            /\ IsShardPath(p)
            /\ \E h \in DOMAIN req :
                  /\ Sweeping(req[h]) /\ req[h].pc = "cl_unlink"
                  /\ ShardFile(Head(req[h].walk.cs),
                               <<Head(req[h].walk.ys), Head(req[h].walk.ms)>>) = p
                  /\ ColdAt(ShardKeyOf(p), req[h].ts)
                  /\ ColdAt(ShardKeyOf(p), now')]_vars
    /\ [][\A h \in DOMAIN req :
            (Sweeping(req'[h]) /\ req'[h] # req[h]) =>
                /\ \A p \in DOMAIN disk' : p \in DOMAIN disk /\ disk'[p] = disk[p]
                /\ dirs' = dirs
                /\ CACHE'.clients = CACHE.clients
                /\ \A c \in Tenants :
                      /\ CACHE'.companies[c].k = CACHE.companies[c].k
                      /\ CACHE.companies[c].k = "company" =>
                            CACHE'.companies[c].config = CACHE.companies[c].config
                      /\ \A k \in CachedKeys(CACHE, c) :
                            IF ShardFile(c, k) \in (DOMAIN disk) \ (DOMAIN disk')
                            THEN k \notin CachedKeys(CACHE', c)
                            ELSE /\ k \in CachedKeys(CACHE', c)
                                 /\ CachedShard(CACHE', c, k) = CachedShard(CACHE, c, k)]_vars

C23_Witness ==
    /\ Sweeping(req[Sweeper]) /\ req[Sweeper].res = "ok"
    /\ ShardFile("t1", <<2024, 10>>) \notin DOMAIN disk
    /\ ShardFile("t2", <<2024, 10>>) \notin DOMAIN disk
    /\ DiskShard(disk, "t1", <<2024, 12>>) = WarmShard
    /\ DiskConfig(disk, "t2") = Cfg("t2", "local", Undefined)
    /\ <<2024, 12>> \in CachedKeys(CACHE, "t1")
    /\ <<2024, 10>> \notin CachedKeys(CACHE, "t1")

\* The parseable .json files of the tree d, as a set of { path, content }.
FilesOf(d) == {Item(p, d[p].v) : p \in {q \in DOMAIN d : d[q].ok}}
ItemSet(files) == {files[i] : i \in 1..Len(files)}
\* getBackupData has returned, in a process whose init() was over.
BackedUp(r) == r.op = "getBackupData" /\ r.res = "ok" /\ ~Reconciling

\* C24: getBackupData returns exactly one {path, content} item for every
\* parseable .json file of the local data tree (tenant list, metadata, system
\* config, every tenant config and every month shard), each with its on-disk
\* content, tagged with the persisted lastWriteTime.
C24_BackupIsTheDiskTree ==
    \A h \in DOMAIN req :
        BackedUp(req[h]) =>
            /\ FilesOf(disk) \subseteq ItemSet(req[h].files)
            /\ \A i, j \in 1..Len(req[h].files) :
                  req[h].files[i].path = req[h].files[j].path => i = j
            /\ req[h].stamp = LastWriteTimeOf(disk)

\* C25: getBackupData is read-only and cache-independent: no step of it
\* changes a file, a directory, the metadata or the cache, and what it returns
\* is found in the on-disk tree whatever the cache holds.
C25_BackupReadOnlyCacheIndependent ==
    /\ [][\A h \in DOMAIN req :
            (req'[h].op = "getBackupData" /\ req'[h] # req[h]) =>
                (disk' = disk /\ dirs' = dirs /\ CACHE' = CACHE)]_vars
    /\ [](\A h \in DOMAIN req :
            BackedUp(req[h]) =>
                \A i \in 1..Len(req[h].files) :
                    /\ Readable(disk, req[h].files[i].path)
                    /\ req[h].files[i].content = disk[req[h].files[i].path].v)

\* Deep equality of two shard objects as JSON values: the same employees, the
\* same entries in the same order, each with equal start, end and location; a
\* location key whose value is undefined counts as an absent key.
SameLoc(x, y) == x = y \/ {x, y} = {"undef", "none"}
DeepEqual(a, b) ==
    /\ DOMAIN a = DOMAIN b
    /\ \A e \in DOMAIN a :
          /\ Len(a[e]) = Len(b[e])
          /\ \A i \in 1..Len(a[e]) :
                /\ a[e][i].start = b[e][i].start
                /\ a[e][i].end = b[e][i].end
                /\ SameLoc(a[e][i].loc, b[e][i].loc)

GotShifts(h) ==
    /\ req'[h].op = "getShifts" /\ req'[h].res = "ok"
    /\ req[h] # req'[h] /\ req[h].pc \in {"idle", "gs_read"}
IsCached(cache, c, key) ==
    cache.companies[c].k = "company" /\ key \in DOMAIN cache.companies[c].shifts

\* C27 as stated: the second of two consecutive getShifts calls for the same
\* key, with no saveShifts for that key in between, returns the content the
\* first one returned.
C27_ConsecutiveGetsIdentical ==
    \A h \in DOMAIN req :
       req[h].op = "getShifts" /\ req[h].res = "ok" /\ req[h].phase = 1
          => req[h].data = req[h].obj

\* C27 as the code has it: a getShifts call that finds the key cached returns
\* the cached shard at once, reading no file and changing nothing; a call that
\* misses returns what the read of the shard file gives ({} when it cannot be
\* read) and leaves exactly that cached; and a second consecutive call that
\* finds the key cached returns the content the first call returned.
C27_CachedShardIsReturned ==
    /\ [][\A h \in DOMAIN req :
            GotShifts(h) /\ req[h].pc = "idle"
              => /\ IsCached(CACHE, req'[h].c, req'[h].key)
                 /\ req'[h].data = CachedShard(CACHE, req'[h].c, req'[h].key)
                 /\ UNCHANGED <<CACHE, disk, dirs, faults>>]_vars
    /\ [][\A h \in DOMAIN req :
            (/\ req[h].pc = "idle" /\ req'[h].op = "getShifts"
             /\ req[h] # req'[h]
             /\ IsCached(CACHE, req'[h].c, req'[h].key))
              => req'[h].res = "ok"]_vars
    /\ [][\A h \in DOMAIN req :
            GotShifts(h) /\ req[h].pc = "gs_read"
              => /\ req'[h].data \in
                       {ReadShard(disk, ShardFile(req[h].c, req[h].key), f) :
                           f \in BOOLEAN}
                 /\ IsCached(CACHE', req[h].c, req[h].key)
                 /\ CachedShard(CACHE', req[h].c, req[h].key) = req'[h].data]_vars
    /\ [][\A h \in DOMAIN req :
            GotShifts(h) /\ req[h].pc = "idle" /\ req'[h].phase = 1
              => req'[h].data = req[h].data]_vars
\* The second call has found the shard the first one cached and returned it:
\* a recorded shift, twice.
C27_Witness ==
    \E h \in DOMAIN req :
       /\ req[h].op = "getShifts" /\ req[h].res = "ok" /\ req[h].phase = 1
       /\ req[h].data = req[h].obj /\ req[h].data # EmptyShard
       /\ IsCached(CACHE, req[h].c, req[h].key)

\* C28: a getShifts call whose shard read finds no file, or a file that does
\* not parse, returns {} (it is not rejected), the same in both cases, and the
\* read changes no file and no directory: the malformed file stays as it was.
C28_UnreadableShardReadsAsEmpty ==
    [][\A h \in DOMAIN req :
          req[h].pc = "gs_read" /\ req[h].op = "getShifts" /\ req[h] # req'[h]
          /\ ~Readable(disk, ShardFile(req[h].c, req[h].key))
            => /\ req'[h].res = "ok"
               /\ req'[h].data = EmptyShard
               /\ UNCHANGED <<disk, dirs>>]_vars
\* getShifts has answered {} for a shard whose file is there and does not parse.
C28_Witness ==
    \E h \in DOMAIN req :
       /\ req[h].op = "getShifts" /\ req[h].res = "ok"
       /\ req[h].data = EmptyShard
       /\ ShardFile(req[h].c, req[h].key) \in DOMAIN disk
       /\ ~disk[ShardFile(req[h].c, req[h].key)].ok

\* C29: getCompanyConfig (through loadCompany) answers from the cached config
\* when the tenant is cached, at once and without touching the disk; when it
\* is not, the answer is the parsed config.json, and when that file is absent
\* the call is not rejected and answers { companyId, settings: {} }.
GetsConfig(h) ==
    req'[h].op = "getCompanyConfig" /\ req[h] # req'[h] /\ req'[h].pc = "idle"
C29_ConfigFromCacheElseDiskElseDefault ==
    /\ [][\A h \in DOMAIN req :
            Fresh(req[h]) /\ req'[h].op = "getCompanyConfig"
            /\ CACHE.companies[req'[h].c].k = "company"
              => /\ req'[h].res = "ok"
                 /\ req'[h].cfg = CACHE.companies[req'[h].c].config
                 /\ UNCHANGED <<CACHE, disk, dirs, faults>>]_vars
    /\ [][\A h \in DOMAIN req :
            GetsConfig(h) /\ req[h].pc = "lc_read"
              => LET file == ConfigFile(req[h].c)
                 IN /\ req'[h].res = "ok"
                    /\ file \notin DOMAIN disk
                          => req'[h].cfg = DefaultConfig(req[h].c)
                    /\ Readable(disk, file) /\ faults' = faults
                          => req'[h].cfg = disk[file].v
                    /\ req'[h].cfg = CACHE'.companies[req[h].c].config]_vars
\* getCompanyConfig has answered the default for a tenant without config.json.
C29_Witness ==
    \E h \in DOMAIN req :
       /\ req[h].op = "getCompanyConfig" /\ req[h].res = "ok"
       /\ ConfigFile(req[h].c) \notin DOMAIN disk
       /\ req[h].cfg = DefaultConfig(req[h].c)
       /\ CACHE.companies[req[h].c].k = "company"

\* C30: when updateCompanyConfig(t, c) returns, the cached config of t and the
\* content of its config.json are equal, and both are the config the call
\* found overlaid with the keys of c.
C30_UpdateLeavesCacheAndDiskEqual ==
    [][\A h \in DOMAIN req :
          (req[h].op = "updateCompanyConfig" /\ req[h].pc = "ult_write"
              /\ req'[h].res = "ok")
            => LET t == req[h].c
               IN /\ Readable(disk', ConfigFile(t))
                  /\ CACHE'.companies[t].k = "company"
                  /\ CACHE'.companies[t].config = disk'[ConfigFile(t)].v
                  /\ disk'[ConfigFile(t)].v = req[h].buf.v]_vars

\* The file a handler's pending disk write goes to, and the two ways the step
\* that settles it can be a failure: an injected fs error, or a missing parent
\* directory (ENOENT).
WritePcs == {"ss_mkdir", "uc_mkdir", "ss_write", "uc_write", "sc_write",
             "us_write", "ult_write"}
ReadPcs  == {"lc_read", "gs_read", "us_read"}
PendingFile(r) ==
    CASE r.pc = "ss_write" -> ShardFile(r.c, r.key)
      [] r.pc = "uc_write" -> ConfigFile(r.c)
      [] r.pc = "sc_write" -> ClientsFile
      [] r.pc = "us_write" -> SystemConfigFile
      [] OTHER             -> MetadataFile
Settles(h) == req[h].pc # "idle" /\ req'[h].pc # req[h].pc
WriteFails(h) ==
    /\ req[h].pc \in WritePcs /\ Settles(h)
    /\ \/ faults' > faults
       \/ req[h].pc \notin {"ss_mkdir", "uc_mkdir"} /\ ~DirReady(PendingFile(req[h]))
ReadFails(h) == req[h].pc \in ReadPcs /\ Settles(h) /\ faults' > faults

\* C31: when a disk write of a running mutation (a mkdir, the data-file
\* write, the metadata write) fails, the operation rejects to its caller; when
\* a read of an operation fails, the operation does not reject.
C31_WriteFailureRejects ==
    [][\A h \in DOMAIN req :
          /\ WriteFails(h) => req'[h].res = "rejected"
          /\ ReadFails(h)  => req'[h].res # "rejected"]_vars

\* The entries of every shard, cached or on disk.
WellFormed(x) == x.start # Null \/ x.end # Null
AllWellFormed(sh) == \A e \in DOMAIN sh : \A i \in 1..Len(sh[e]) : WellFormed(sh[e][i])

\* C32: every shift entry of every cached shard and of every shard file has
\* a start or an end: no store operation stores an entry with neither.
C32_EveryEntryHasStartOrEnd ==
    /\ \A c \in Tenants : \A key \in AllKeysOf(CACHE, c) :
          AllWellFormed(CachedShard(CACHE, c, key))
    /\ \A p \in DOMAIN disk : IsShardPath(p) /\ disk[p].ok => AllWellFormed(disk[p].v)

\* The auto check-out h runs in this step; the tenants its loop has still to
\* finish; an entry the claim says must be closed at the time t of the run.
Members(seq) == {seq[i] : i \in 1..Len(seq)}
AutoRuns(h) ==
    /\ req'[h].op = "performAutoCheckout"
    /\ <<req[h].op, req[h].pc, req[h].res, req[h].walk>>
          # <<req'[h].op, req'[h].pc, req'[h].res, req'[h].walk>>
AutoPending(r, cache) ==
    IF r.op = "performAutoCheckout"
    THEN (IF r.res = "none" THEN Members(r.walk.cs) ELSE {})
    ELSE Members(cache.clients)
MustClose(x, t) == x.start # Null /\ x.end = Null /\ t - x.start > AutoLimit
ClosedAtLimit(x) == [x EXCEPT !.end = x.start + AutoLimit]
\* sh2 is sh1 with its overdue entries, and nothing else, closed at the limit.
AutoClosed(sh1, sh2, t) ==
    /\ DOMAIN sh2 = DOMAIN sh1
    /\ \A e \in DOMAIN sh1 :
          /\ Len(sh2[e]) = Len(sh1[e])
          /\ \A i \in 1..Len(sh1[e]) :
                sh2[e][i] = IF MustClose(sh1[e][i], t)
                            THEN ClosedAtLimit(sh1[e][i]) ELSE sh1[e][i]

\* C39: a step of performAutoCheckout run at time t changes a shard only by
\* closing, at start + 12 h, the entries of a tenant's shard of the month of t
\* that have a start, no end and an age above 12 h; every tenant the loop has
\* gone past has no such entry left in that shard; and saveShifts (hence the
\* metadata write) is entered only for a tenant whose shard was so changed
\* in that step, and for every such tenant.
C39_AutoCheckoutClosesOverdueOnly ==
    [][\A h \in DOMAIN req :
          AutoRuns(h) =>
            LET t   == req'[h].ts
                key == req'[h].key
                shardBefore(c) ==
                    IF key \in AllKeysOf(CACHE, c)
                    THEN CachedShard(CACHE, c, key)
                    ELSE ReadShard(disk, ShardFile(c, key), FALSE)
                saving == req'[h].pc = "ss_mkdir" /\ req[h].pc # "ss_mkdir"
                passed == (AutoPending(req[h], CACHE) \ AutoPending(req'[h], CACHE'))
                             \ (IF req[h].pc = "ult_write" THEN {req[h].c} ELSE {})
            IN /\ key = KeyOf(t)
               /\ \A c \in Tenants :
                     key \in AllKeysOf(CACHE', c)
                       => \/ CachedShard(CACHE', c, key) = shardBefore(c)
                          \/ /\ saving /\ req'[h].c = c
                             /\ AutoClosed(shardBefore(c), CachedShard(CACHE', c, key), t)
               /\ saving =>
                     /\ key \in AllKeysOf(CACHE', req'[h].c)
                     /\ CachedShard(CACHE', req'[h].c, key) # shardBefore(req'[h].c)
                     /\ AutoClosed(shardBefore(req'[h].c),
                                   CachedShard(CACHE', req'[h].c, key), t)
               /\ \A c \in passed :
                     /\ key \in AllKeysOf(CACHE', c)
                     /\ \A e \in DOMAIN CachedShard(CACHE', c, key) :
                           \A i \in 1..Len(CachedShard(CACHE', c, key)[e]) :
                              ~MustClose(CachedShard(CACHE', c, key)[e][i], t)
               /\ disk' # disk
                     => /\ req[h].pc \in {"ss_write", "ult_write"}
                        /\ \A p \in DOMAIN disk : p # MetadataFile
                              /\ p # ShardFile(req[h].c, key) => disk'[p] = disk[p]]_vars

\* The tenant ids in clients.json ({} when the file is absent or unreadable).
PersistedIds(d) ==
    IF Readable(d, ClientsFile) THEN Members(d[ClientsFile].v) ELSE {}

\* C33: once init() has finished, no step removes a tenant id from the
\* persisted tenant list: the set of ids in clients.json only grows.
C33_PersistedTenantsOnlyGrow ==
    [][~Reconciling => PersistedIds(disk) \subseteq PersistedIds(disk')]_vars

\* The entry logShift(_, e, action, ts) stores is in the shard sh.
HasLogged(sh, e, action, ts) ==
    /\ e \in DOMAIN sh
    /\ \E i \in 1..Len(sh[e]) :
          IF action = "IN" THEN sh[e][i].start = ts ELSE sh[e][i].end = ts

\* C34: a getShiftsHybrid(t, year(ts), month(ts)) that begins after
\* logShift(t, e, action, ts) has completed successfully returns a shard that
\* contains the entry logShift wrote, whether the month of ts is hot or not.
C34_HybridReadsOwnWrite ==
    [][\A h \in DOMAIN req \ {Editor} :
          (/\ Returns(h) /\ req'[h].op = "getShiftsHybrid"
           /\ req[Editor].op = "logShift" /\ req[Editor].res = "ok"
           /\ req'[h].c = req[Editor].c /\ req'[h].key = KeyOf(req[Editor].ts))
            => HasLogged(req'[h].data, req[Editor].emp, req[Editor].act,
                         req[Editor].ts)]_vars

\* The snapshot `files` carries the entry logShift(c, e, action, ts) stored.
Carries(files, c, e, action, ts) ==
    \E i \in 1..Len(files) :
        /\ files[i].path = ShardFile(c, KeyOf(ts))
        /\ HasLogged(files[i].content, e, action, ts)
\* The one mutation of the run has completed: metadata.json holds its stamp.
Stamped(r) == r.op = "logShift" /\ r.res = "ok"

\* C35: the lastWriteTime tag of a snapshot getBackupData returns never claims
\* a fresher state than its files carry: when the stamp a completed mutation
\* left in metadata.json is at or below the tag, the snapshot's files hold what
\* the mutation wrote, however the two were interleaved.
C35_TagNeverAheadOfFiles ==
    \A h \in DOMAIN req \ {Editor} :
        (/\ req[h].op = "getBackupData" /\ req[h].res = "ok"
         /\ Stamped(req[Editor])
         /\ LastWriteTimeOf(disk) <= req[h].stamp)
        => Carries(req[h].files, req[Editor].c, req[Editor].emp,
                   req[Editor].act, req[Editor].ts)

\* The handler whose store operation takes the step, and the tenant the
\* operation is addressed to.
Acts(h) == req'[h].pc # req[h].pc \/ req'[h].res # req[h].res \/ req'[h].op # req[h].op
Addressee(h) == req'[h].c
TenantOps == {"logShift", "updateCompanyConfig", "getShiftsHybrid"}
\* What the store holds for tenant b: its cache slot and its cold-cache
\* entries, its config file and its shard files.
CachedFor(cache, b) ==
    <<cache.companies[b],
      [x \in {y \in DOMAIN cache.historicalData : y[1] = b} |->
          cache.historicalData[x]]>>
StoredFor(d, b) ==
    [p \in {q \in DOMAIN d : Len(q) >= 2 /\ TenantOf(q) = b} |-> d[p]]
\* A read for tenant a answers with a's cached shard, a's cold-cache entry or
\* the archive's answer to a request for a (kept under a's key), or {}.
FromOwnKey(r, cache) ==
    \/ r.data = EmptyShard
    \/ /\ cache.companies[r.c].k = "company"
       /\ r.key \in DOMAIN cache.companies[r.c].shifts
       /\ r.data = cache.companies[r.c].shifts[r.key]
    \/ /\ <<r.c, r.key>> \in DOMAIN cache.historicalData
       /\ r.data = cache.historicalData[<<r.c, r.key>>].data

\* C36: every step of a store operation addressed to tenant a (getShifts,
\* logShift, saveShifts, updateCompanyConfig, fetchColdData) leaves the cache
\* slot, the cold-cache entries, the config file and the shard files of
\* every other tenant b unchanged, and a read returns only what is stored
\* under a's key.
C36_TenantIsolation ==
    [][\A h \in DOMAIN req :
          (Acts(h) /\ req'[h].op \in TenantOps) =>
              /\ \A b \in Tenants \ {Addressee(h)} :
                    /\ CachedFor(CACHE', b) = CachedFor(CACHE, b)
                    /\ StoredFor(disk', b) = StoredFor(disk, b)
              /\ (Returns(h) /\ req'[h].op = "getShiftsHybrid")
                    => FromOwnKey(req'[h], CACHE')]_vars

\* A clock-in for t1 has been stored while t2 is loaded in the cache, holds a
\* cold-cache entry and still has the config and the shard it started with.
C36_Witness ==
    /\ req[Editor].op = "logShift" /\ req[Editor].res = "ok" /\ req[Editor].c = "t1"
    /\ disk[ShardFile("t1", KeyOf(3))] # AgedDisk[ShardFile("t1", KeyOf(3))]
    /\ CACHE.companies["t2"].k = "company"
    /\ \E x \in DOMAIN CACHE.historicalData : x[1] = "t2"
    /\ StoredFor(disk, "t2") = StoredFor(AgedDisk, "t2")
    /\ DOMAIN StoredFor(disk, "t2") # {}

\* The payload holds content for the path p: an item of its files, or its
\* metadata member, which is what metadata.json is written from.
InSnapshot(b, p) ==
    p = MetadataFile \/ \E i \in 1..Len(b.backup.files) : b.backup.files[i].path = p

\* C37: no step of the restore deletes or modifies a local file whose path is
\* not in the remote snapshot: such a file is still there with the content it
\* had, so the tree becomes the snapshot overlaid on the old tree.
C37_RestoreKeepsOtherFiles ==
    [][(InRestore /\ boot' # boot) =>
          \A p \in DOMAIN disk :
              ~InSnapshot(boot, p) => (p \in DOMAIN disk' /\ disk'[p] = disk[p])]_vars

\* A restore has written the one shard of its snapshot into a tree that held
\* files of another tenant, which are still as they were.
C37_Witness ==
    /\ boot.pc = "done" /\ boot.decision = "restore"
    /\ ShardFile("t2", KeyOf(3)) \in boot.restored
    /\ ~InSnapshot(boot, ConfigFile("t1"))
    /\ ~InSnapshot(boot, ShardFile("t1", KeyOf(3)))
    /\ Readable(disk, ConfigFile("t1"))
    /\ disk[ShardFile("t1", KeyOf(3))] = Text(WarmShard)

\* C38: reconciliation is idempotent: when a run has restored from a snapshot
\* with remoteTime > 0 and finished, a second run against the same snapshot,
\* with no mutation in between, decides Skip and never enters the restore.
C38_SecondRunSkips ==
    (boot.runs = 2 /\ boot.remoteTime > 0 /\ boot.pc # "i_fetch")
        => (boot.decision = "skip" /\ ~InRestore)

====
